---------------------------- MODULE Spec2Model ----------------------------
(***************************************************************************)
(* SentinelAI content risk-analysis pipeline                               *)
(* (src/sentinelai_platform/sentinelai/services/analyzer.py).              *)
(*                                                                         *)
(* Texts are TLA+ strings; the character at position i of t is             *)
(* SubSeq(t, i, i).  Optional values (Python's None / a value) are         *)
(* sequences of length 0 / 1.  Scores are fixed-point numbers counted in   *)
(* hundredths of a point (Pt(28) is the score 28.0), so that the one- and  *)
(* two-decimal roundings of the code are conversions and not identities.   *)
(***************************************************************************)
EXTENDS Integers, Sequences, FiniteSets, TLC

\* ------------------------------------------------------------------ bounds

\* Longest generated input, in vocabulary phrases.
MaxWords == 3

\* The largest score, in points, _risk_level is applied to.
MaxScore == 100

\* Most applications of _anonymize to one text, each to the outcome of the last.
MaxPasses == 2

\* The interactions of one session.
MaxOps == 2

\* The items counted in total_analyzed when the live feed is run at length.
MaxAnalyzed == 112

\* The quick analyses when the live feed is run at length.
MaxQuick == 1

\* ------------------------------------------------------- Python built-ins

None == <<>>

Some(v) == <<v>>

\* Python truthiness of an Optional[str]: neither None nor "".
Truthy(o) == o # None /\ o[1] # ""

Min(a, b) == IF a <= b THEN a ELSE b

Max(a, b) == IF a >= b THEN a ELSE b

Abs(a) == IF a >= 0 THEN a ELSE -a

CharAt(t, i) == SubSeq(t, i, i)

CharsOf(s) == {CharAt(s, i) : i \in 1..Len(s)}

ASCII_LOWER == "abcdefghijklmnopqrstuvwxyz"

ASCII_UPPER == "ABCDEFGHIJKLMNOPQRSTUVWXYZ"

DIGITS == CharsOf("0123456789")

LOWERS == CharsOf(ASCII_LOWER)

UPPERS == CharsOf(ASCII_UPPER)

WHITESPACE == {" ", "\t", "\n", "\r"}

\* \w of the re module, on the ASCII alphabet of the model.
WORD_CHARS == LOWERS \cup UPPERS \cup DIGITS \cup {"_"}

IndexIn(s, c) == CHOOSE i \in 1..Len(s) : CharAt(s, i) = c

\* str.lower() / str.upper() on one character.
LowerChar(c) == IF c \in UPPERS THEN CharAt(ASCII_LOWER, IndexIn(ASCII_UPPER, c)) ELSE c

UpperChar(c) == IF c \in LOWERS THEN CharAt(ASCII_UPPER, IndexIn(ASCII_LOWER, c)) ELSE c

RECURSIVE Lower(_)
\* str.lower()
Lower(t) == IF t = "" THEN "" ELSE LowerChar(CharAt(t, 1)) \o Lower(SubSeq(t, 2, Len(t)))

RECURSIVE TitleFrom(_, _)
\* str.title(): a letter that follows a non-letter is upper-cased, any other
\* letter lower-cased.  prevCased tells whether the previous character was a letter.
TitleFrom(t, prevCased) ==
    IF t = "" THEN ""
    ELSE LET c == CharAt(t, 1)
             cased == c \in LOWERS \cup UPPERS
         IN (IF prevCased THEN LowerChar(c) ELSE UpperChar(c))
                \o TitleFrom(SubSeq(t, 2, Len(t)), cased)

Title(t) == TitleFrom(t, FALSE)

RECURSIVE Replace(_, _, _)
\* str.replace(old, new) for a one-character old.
Replace(t, old, new) ==
    IF t = "" THEN ""
    ELSE (IF CharAt(t, 1) = old THEN new ELSE CharAt(t, 1))
            \o Replace(SubSeq(t, 2, Len(t)), old, new)

RECURSIVE LStrip(_)
LStrip(t) == IF t # "" /\ CharAt(t, 1) \in WHITESPACE THEN LStrip(SubSeq(t, 2, Len(t))) ELSE t

RECURSIVE RStrip(_)
RStrip(t) ==
    IF t # "" /\ CharAt(t, Len(t)) \in WHITESPACE THEN RStrip(SubSeq(t, 1, Len(t) - 1)) ELSE t

\* str.strip()
Strip(t) == RStrip(LStrip(t))

\* The Python operator `kw in t` on strings.
Contains(t, kw) ==
    \E i \in 1..(Len(t) - Len(kw) + 1) : SubSeq(t, i, i + Len(kw) - 1) = kw

RECURSIVE Join(_, _)
\* sep.join(items)
Join(sep, items) ==
    IF items = <<>> THEN ""
    ELSE IF Len(items) = 1 THEN items[1]
    ELSE items[1] \o sep \o Join(sep, Tail(items))

\* -------------------------------------------------------------- re module
\* A regular expression is a tree of the nodes below.  MatchFirst is a
\* backtracking matcher: it tries the ways of matching in the order the re
\* module tries them (alternatives left to right, greedy repetitions from the
\* longest) and gives the end of the first way that succeeds.

Lit(s) == [op |-> "lit", s |-> s]

Alt(rs) == [op |-> "alt", rs |-> rs]

Cat(rs) == [op |-> "cat", rs |-> rs]

Opt(r) == [op |-> "opt", r |-> r]

\* Greedy repetition {lo,hi} of one character of class cls; hi = -1 for no limit.
Rep(cls, lo, hi) == [op |-> "rep", cls |-> cls, lo |-> lo, hi |-> hi]

WB == [op |-> "wb"]

RECURSIVE LitsFrom(_, _)
LitsFrom(ws, k) == IF k > Len(ws) THEN <<>> ELSE <<Lit(ws[k])>> \o LitsFrom(ws, k + 1)

\* (w1|w2|...) over literal words.
Words(ws) == Alt(LitsFrom(ws, 1))

\* Character classes, by the text they have in the source patterns.
InClass(c, cls) ==
    CASE cls = "." -> c # "\n"
      [] cls = "\\d" -> c \in DIGITS
      [] cls = "\\w" -> c \in WORD_CHARS
      [] cls = "[\\w.+-]" -> c \in WORD_CHARS \cup {".", "+", "-"}
      [] cls = "[\\w-]" -> c \in WORD_CHARS \cup {"-"}
      [] cls = "[\\d\\s\\-().]" -> c \in DIGITS \cup WHITESPACE \cup {"-", "(", ")", "."}

IsWordAt(t, i) == i >= 1 /\ i <= Len(t) /\ CharAt(t, i) \in WORD_CHARS

\* \b between positions i - 1 and i
AtWordBoundary(t, i) == IsWordAt(t, i - 1) # IsWordAt(t, i)

LitAt(t, i, s) == i + Len(s) - 1 <= Len(t) /\ SubSeq(t, i, i + Len(s) - 1) = s

RECURSIVE RunLength(_, _, _, _)
\* Number of consecutive characters of class cls from position i, at most hi.
RunLength(t, i, cls, hi) ==
    IF hi = 0 \/ i > Len(t) \/ ~InClass(CharAt(t, i), cls) THEN 0
    ELSE 1 + RunLength(t, i + 1, cls, hi - 1)

NoMatch == 0

RECURSIVE MatchFirst(_, _, _), FirstAlt(_, _, _, _, _), FirstRep(_, _, _, _, _)
\* rs: the nodes still to match, in sequence, from position i of t.  The
\* value is the position just after the match, or NoMatch.
MatchFirst(rs, t, i) ==
    IF rs = <<>> THEN i
    ELSE LET r == Head(rs)
             rest == Tail(rs)
         IN CASE r.op = "lit" ->
                    IF LitAt(t, i, r.s) THEN MatchFirst(rest, t, i + Len(r.s)) ELSE NoMatch
              [] r.op = "wb" ->
                    IF AtWordBoundary(t, i) THEN MatchFirst(rest, t, i) ELSE NoMatch
              [] r.op = "opt" ->
                    LET with == MatchFirst(<<r.r>> \o rest, t, i)
                    IN IF with # NoMatch THEN with ELSE MatchFirst(rest, t, i)
              [] r.op = "rep" ->
                    LET n == RunLength(t, i, r.cls, r.hi)
                    IN IF n < r.lo THEN NoMatch ELSE FirstRep(rest, t, i, n, r.lo)
              [] r.op = "alt" -> FirstAlt(r.rs, 1, rest, t, i)
              [] r.op = "cat" -> MatchFirst(r.rs \o rest, t, i)

\* The alternatives from the k-th on, each followed by rest.
FirstAlt(alts, k, rest, t, i) ==
    IF k > Len(alts) THEN NoMatch
    ELSE LET a == alts[k]
             e == IF a.op = "lit"
                  THEN (IF LitAt(t, i, a.s) THEN MatchFirst(rest, t, i + Len(a.s)) ELSE NoMatch)
                  ELSE MatchFirst(<<a>> \o rest, t, i)
         IN IF e # NoMatch THEN e ELSE FirstAlt(alts, k + 1, rest, t, i)

\* A repetition that took n characters, giving them back one at a time down to lo.
FirstRep(rest, t, i, n, lo) ==
    IF n < lo THEN NoMatch
    ELSE LET e == MatchFirst(rest, t, i + n)
         IN IF e # NoMatch THEN e ELSE FirstRep(rest, t, i, n - 1, lo)

\* A pattern that opens with \b matches only at a word boundary.
CanStartAt(r, t, i) ==
    IF r.op = "cat" /\ r.rs[1].op = "wb" THEN AtWordBoundary(t, i) ELSE TRUE

RECURSIVE SearchFrom(_, _, _)
\* re.search from position `from`: None, or the leftmost match.
SearchFrom(r, t, from) ==
    IF from > Len(t) + 1 THEN None
    ELSE IF ~CanStartAt(r, t, from) THEN SearchFrom(r, t, from + 1)
    ELSE LET e == MatchFirst(<<r>>, t, from)
         IN IF e # NoMatch THEN Some([start |-> from, end |-> e])
            ELSE SearchFrom(r, t, from + 1)

\* re.search(pattern, text)
re_search(r, t) == SearchFrom(r, t, 1)

\* m.group(0)
Group0(t, m) == SubSeq(t, m.start, m.end - 1)

RECURSIVE SubFrom(_, _, _, _)
\* The patterns of the analyzer match no empty string, so a match always advances.
SubFrom(r, repl, t, from) ==
    LET m == SearchFrom(r, t, from)
    IN IF m = None THEN SubSeq(t, from, Len(t))
       ELSE SubSeq(t, from, m[1].start - 1) \o repl \o SubFrom(r, repl, t, m[1].end)

\* re.sub(pattern, repl, text): every non-overlapping match, left to right.
re_sub(r, repl, t) == SubFrom(r, repl, t, 1)

\* ---------------------------------------------------- ordered dictionaries
\* A Python dict is the sequence of its items [k, v] in insertion order.

Keys(d) == [i \in 1..Len(d) |-> d[i].k]

Has(d, key) == \E i \in 1..Len(d) : d[i].k = key

\* d.get(key, default)
Get(d, key, default) ==
    IF Has(d, key) THEN d[CHOOSE i \in 1..Len(d) : d[i].k = key].v ELSE default

\* ---------------------------------------------------------- fixed point

\* The score n.0: scores are counted in hundredths of a point.
Pt(n) == n * 100

\* round(num / den, digits) for digits in {1, 2} on a value counted in
\* 1/den: the result is counted in 10^-digits, ties going to the even neighbour.
RoundDiv(num, den) ==
    LET q == num \div den
        r == num % den
    IN IF 2 * r > den \/ (2 * r = den /\ q % 2 = 1) THEN q + 1 ELSE q

\* round(score, 1) of a score in hundredths, as a score in hundredths.
Round1(score) == RoundDiv(score, 10) * 10

\* --------------------------------------------------------- rule taxonomy

\* \b(w1|w2|...)\b
Bounded(alts) == Cat(<<WB, alts, WB>>)

\* .{0,n}
Gap(n) == Rep(".", 0, n)

\* \b(a...)\b.{0,n}\b(b...)\b
Near(alts, n, others) == Cat(<<WB, alts, WB, Gap(n), WB, others, WB>>)

\* x.?y
OptAny(a, b) == Cat(<<Lit(a), Rep(".", 0, 1), Lit(b)>>)

\* xs?
OptS(a) == Cat(<<Lit(a), Opt(Lit("s"))>>)

PATTERNS ==
    << [k |-> "violence", v |-> <<
          Bounded(Words(<<"kill", "murder", "shoot", "bomb", "explode", "attack",
                          "assault", "stab", "shoot", "massacre">>)),
          Bounded(Words(<<"weapon", "gun", "knife", "explosive", "grenade", "rpg", "ied">>)),
          Cat(<<WB, Words(<<"threat", "threaten", "harm", "hurt", "destroy">>), WB, Gap(30),
                WB, Words(<<"you", "them", "people", "everyone">>), WB>>) >>],
       [k |-> "cybersecurity", v |-> <<
          Bounded(Alt(<<Lit("malware"), Lit("ransomware"), Lit("phishing"), Lit("exploit"),
                        Lit("vulnerability"), OptAny("zero", "day"), Lit("ddos")>>)),
          Bounded(Words(<<"hack", "breach", "compromise", "infiltrate", "backdoor",
                          "payload", "injection">>)),
          Cat(<<WB, Alt(<<OptS("credential"), Lit("password"), Lit("token"),
                          OptAny("api", "key")>>), Gap(20),
                WB, Words(<<"steal", "leak", "dump", "expose">>), WB>>) >>],
       [k |-> "social_engineering", v |-> <<
          Bounded(Words(<<"click here", "verify your", "confirm your", "account suspended",
                          "urgent action">>)),
          Bounded(Words(<<"prize", "winner", "congratulations", "claim now", "limited time">>)),
          Cat(<<WB, Words(<<"bank", "paypal", "amazon", "apple", "microsoft">>), Gap(30),
                WB, Words(<<"verify", "confirm", "update", "suspend">>), WB>>) >>],
       [k |-> "hate_speech", v |-> <<
          Cat(<<WB, Words(<<"hate", "despise", "inferior", "subhuman">>), Gap(20),
                WB, Words(<<"race", "religion", "gender", "ethnic">>), WB>>),
          Bounded(Words(<<"extremist", "radical", "terrorist", "jihad", "supremacist">>)) >>],
       [k |-> "misinformation", v |-> <<
          Bounded(Alt(<<Lit("breaking"), Lit("exposed"),
                        Cat(<<Lit("they don"), Opt(Lit("'")), Lit("t want you to know")>>),
                        Lit("secret"), OptAny("cover", "up")>>)),
          Bounded(Words(<<"proven", "scientifically proven", "doctors hate", "suppressed">>)),
          Bounded(Words(<<"conspiracy", "hoax", "fake", "false flag">>)) >>],
       [k |-> "suspicious_activity", v |-> <<
          Near(Alt(<<OptS("coordinate"), Lit("location"), Lit("meet at"), Lit("rendezvous"),
                     OptAny("drop", "off"), OptAny("pick", "up")>>), 50,
               Words(<<"tonight", "tomorrow", "after dark">>)),
          Bounded(Words(<<"encrypted", "secure channel", "no trace", "burner", "anonymous">>)),
          Cat(<<WB, Words(<<"shipment", "package", "cargo", "delivery">>), Gap(30),
                WB, Words(<<"location", "coordinates", "address">>), WB>>) >>],
       [k |-> "data_exfiltration", v |-> <<
          Cat(<<WB, Words(<<"exfil", "exfiltrate", "extract", "dump", "steal", "leak">>), Gap(30),
                WB, Words(<<"data", "database", "records", "files">>), WB>>),
          Cat(<<WB, Words(<<"send", "transfer", "upload">>), Gap(20),
                WB, Words(<<"to my", "to the", "private", "external">>), WB, Gap(20),
                WB, Words(<<"server", "drive", "cloud">>), WB>>) >>] >>

WEAPON_ENTITIES ==
    <<"gun", "rifle", "pistol", "bomb", "explosive", "grenade", "missile",
      "rpg", "ied", "weapon", "ammunition", "detonator", "c4", "tnt">>

THREAT_ENTITIES ==
    <<"threat", "attack", "target", "victim", "hostage", "kidnap",
      "assassination", "execute", "eliminate">>

LOCATION_RISK_TERMS ==
    <<"warehouse", "coordinates", "safe house", "drop point",
      "rendezvous", "border", "checkpoint", "facility">>

\* The weights table of _pattern_score.
weights ==
    [c \in {"violence", "cybersecurity", "social_engineering", "hate_speech",
            "misinformation", "suspicious_activity", "data_exfiltration"} |->
        CASE c = "violence" -> 35
          [] c = "cybersecurity" -> 28
          [] c = "social_engineering" -> 22
          [] c = "hate_speech" -> 30
          [] c = "misinformation" -> 15
          [] c = "suspicious_activity" -> 25
          [] c = "data_exfiltration" -> 28]

\* ------------------------------------------------------------- analyzer

RECURSIVE MatchedFrom(_, _, _)
\* The inner loop of _pattern_score: m.group(0) of every pattern, from the
\* k-th on, that re.search finds in text_lower.
MatchedFrom(patterns, k, text_lower) ==
    IF k > Len(patterns) THEN <<>>
    ELSE LET m == re_search(patterns[k], text_lower)
         IN (IF m # None THEN <<Group0(text_lower, m[1])>> ELSE <<>>)
                \o MatchedFrom(patterns, k + 1, text_lower)

RECURSIVE PatternLoop_per_rule(_, _, _, _)
\* The outer loop adding a category's weight once for each of its matching rules.
PatternLoop_per_rule(table, k, text_lower, acc) ==
    IF k > Len(table) THEN acc
    ELSE LET category == table[k].k
             matched == MatchedFrom(table[k].v, 1, text_lower)
         IN PatternLoop_per_rule(table, k + 1, text_lower,
                IF matched # <<>>
                THEN [hits |-> Append(acc.hits, [k |-> category, v |-> matched]),
                      total_weight |-> acc.total_weight
                                         + Len(matched) * Pt(weights[category])]
                ELSE acc)

RECURSIVE PatternLoop(_, _, _, _)
\* The outer loop of _pattern_score over the items of `table` from the k-th
\* on; acc is (hits, total_weight) so far.
PatternLoop(table, k, text_lower, acc) ==
    IF k > Len(table) THEN acc
    ELSE LET category == table[k].k
             matched == MatchedFrom(table[k].v, 1, text_lower)
         IN PatternLoop(table, k + 1, text_lower,
                IF matched # <<>>
                THEN [hits |-> Append(acc.hits, [k |-> category, v |-> matched]),
                      total_weight |-> acc.total_weight + Pt(weights[category])]
                ELSE acc)

\* _pattern_score over a given rule table.
PatternScoreOver(table, text) ==
    LET done == PatternLoop(table, 1, Lower(text), [hits |-> <<>>, total_weight |-> 0])
    IN [raw_score |-> Min(Pt(95), done.total_weight), hits |-> done.hits]

_pattern_score(text) == PatternScoreOver(PATTERNS, text)

\* Keywords present as whole space-separated words only.
Present_whole_words(terms, text_lower) ==
    SelectSeq(terms, LAMBDA w : Contains(" " \o text_lower \o " ", " " \o w \o " "))

\* [w for w in terms if w in text_lower]
Present(terms, text_lower) == SelectSeq(terms, LAMBDA w : Contains(text_lower, w))

_extract_entities(text) ==
    LET text_lower == Lower(text)
        found == << [k |-> "weapons", v |-> Present(WEAPON_ENTITIES, text_lower)],
                    [k |-> "threat_terms", v |-> Present(THREAT_ENTITIES, text_lower)],
                    [k |-> "location_risk", v |-> Present(LOCATION_RISK_TERMS, text_lower)] >>
    IN SelectSeq(found, LAMBDA item : item.v # <<>>)

negative_terms ==
    <<"hate", "angry", "terrible", "awful", "kill", "threat", "danger",
      "attack", "destroy", "furious", "outrage", "alarming", "crisis">>

positive_terms ==
    <<"great", "wonderful", "love", "happy", "excellent", "beautiful",
      "fantastic", "amazing", "good", "nice", "excited", "pleased">>

\* The decision with both thresholds counted in.
SentimentOf_inclusive(pos, neg) ==
    LET total == neg + pos
    IN IF total = 0 THEN [label |-> "Neutral", num |-> 0, den |-> 1]
       ELSE IF 10 * (pos - neg) >= 3 * total
            THEN [label |-> "Positive", num |-> pos - neg, den |-> total]
       ELSE IF 10 * (pos - neg) <= -3 * total
            THEN [label |-> "Negative", num |-> Abs(pos - neg), den |-> total]
       ELSE [label |-> "Neutral", num |-> 0, den |-> 1]

\* The decision of _sentiment_score on the two counts.  The strength is the
\* fraction num/den; score > 0.3 is 10 * (pos - neg) > 3 * total.
SentimentOf(pos, neg) ==
    LET total == neg + pos
    IN IF total = 0 THEN [label |-> "Neutral", num |-> 0, den |-> 1]
       ELSE IF 10 * (pos - neg) > 3 * total
            THEN [label |-> "Positive", num |-> pos - neg, den |-> total]
       ELSE IF 10 * (pos - neg) < -3 * total
            THEN [label |-> "Negative", num |-> Abs(pos - neg), den |-> total]
       ELSE [label |-> "Neutral", num |-> 0, den |-> 1]

_sentiment_score(text) ==
    LET text_lower == Lower(text)
        neg == Len(Present(negative_terms, text_lower))
        pos == Len(Present(positive_terms, text_lower))
    IN SentimentOf(pos, neg)

\* The table with every boundary left to the lower level.
_risk_level_exclusive(score) ==
    IF score > Pt(75) THEN "CRITICAL"
    ELSE IF score > Pt(55) THEN "HIGH"
    ELSE IF score > Pt(30) THEN "MEDIUM"
    ELSE IF score > Pt(10) THEN "LOW"
    ELSE "SAFE"

_risk_level(score) ==
    IF score >= Pt(75) THEN "CRITICAL"
    ELSE IF score >= Pt(55) THEN "HIGH"
    ELSE IF score >= Pt(30) THEN "MEDIUM"
    ELSE IF score >= Pt(10) THEN "LOW"
    ELSE "SAFE"

\* r'\b[\w.+-]+@[\w-]+\.\w+\b'
EMAIL_RE ==
    Cat(<<WB, Rep("[\\w.+-]", 1, -1), Lit("@"), Rep("[\\w-]", 1, -1), Lit("."),
          Rep("\\w", 1, -1), WB>>)

\* r'\b(\+?\d[\d\s\-().]{7,14}\d)\b'
PHONE_RE ==
    Cat(<<WB, Opt(Lit("+")), Rep("\\d", 1, 1), Rep("[\\d\\s\\-().]", 7, 14),
          Rep("\\d", 1, 1), WB>>)

\* r'\b\d{1,3}\.\d{1,3}\.\d{1,3}\.\d{1,3}\b'
IP_RE ==
    Cat(<<WB, Rep("\\d", 1, 3), Lit("."), Rep("\\d", 1, 3), Lit("."),
          Rep("\\d", 1, 3), Lit("."), Rep("\\d", 1, 3), WB>>)

\* A redaction whose phone token carries a placeholder number.
_anonymize_placeholder(text) ==
    LET email == re_sub(EMAIL_RE, "[EMAIL REDACTED]", text)
        phone == re_sub(PHONE_RE, "[PHONE 000-000-0000]", email)
    IN re_sub(IP_RE, "[IP REDACTED]", phone)

_anonymize(text) ==
    LET email == re_sub(EMAIL_RE, "[EMAIL REDACTED]", text)
        phone == re_sub(PHONE_RE, "[PHONE REDACTED]", email)
    IN re_sub(IP_RE, "[IP REDACTED]", phone)

\* c.replace("_", " ").title()
Readable(c) == Title(Replace(c, "_", " "))

\* parts + [sentence] when cond holds
AppendIf(parts, cond, sentence) == IF cond THEN Append(parts, sentence) ELSE parts

\* The fixed sentences are written in ASCII: the source's dash is "-" here.
_build_explanation(score, hits, entities, sentiment) ==
    LET cats == Keys(hits)
        readable == [i \in 1..Len(cats) |-> Readable(cats[i])]
        p0 == IF hits = <<>> /\ entities = <<>>
              THEN <<"No significant threat indicators detected in this content.",
                     "The text appears benign based on pattern analysis.">>
              ELSE LET a == AppendIf(<<>>, hits # <<>>,
                                "Detected threat indicators across " \o ToString(Len(cats))
                                    \o " category(ies): " \o Join(", ", readable) \o ".")
                       b == AppendIf(a, Has(hits, "violence"),
                                "Content contains language associated with violence or physical threats.")
                       c == AppendIf(b, Has(hits, "cybersecurity"),
                                "Cybersecurity threat patterns identified - potential malware or attack activity.")
                       d == AppendIf(c, Has(hits, "social_engineering"),
                                "Social engineering indicators found - possible phishing or manipulation attempt.")
                       e == AppendIf(d, Has(hits, "hate_speech"),
                                "Hate speech or extremist content detected.")
                       f == AppendIf(e, Has(hits, "misinformation"),
                                "Misinformation / disinformation markers present.")
                       g == AppendIf(f, Has(hits, "suspicious_activity"),
                                "Suspicious coordination language detected - possible clandestine activity.")
                       h == AppendIf(g, Get(entities, "weapons", <<>>) # <<>>,
                                "Weapon-related entities: "
                                    \o Join(", ", Get(entities, "weapons", <<>>)) \o ".")
                       i == AppendIf(h, Get(entities, "threat_terms", <<>>) # <<>>,
                                "Direct threat language: "
                                    \o Join(", ", Get(entities, "threat_terms", <<>>)) \o ".")
                   IN AppendIf(i, Get(entities, "location_risk", <<>>) # <<>>,
                                "Location/operational security terms: "
                                    \o Join(", ", Get(entities, "location_risk", <<>>)) \o ".")
        parts == AppendIf(p0, sentiment = "Negative", "Overall sentiment is strongly negative.")
    IN Join(" ", parts)

\* The fixed lines are written without the source's leading pictograph.
NO_ACTION == "No immediate action required - continue routine monitoring."

\* The plan with the review lines at every level from HIGH up.
_mitigation_steps_cumulative(hits, score) ==
    LET level == _risk_level(score)
        s0 == (IF level = "CRITICAL"
               THEN <<"IMMEDIATE ACTION: Escalate to security team / incident response.",
                      "Block and preserve the source for forensic analysis.">>
               ELSE <<>>)
              \o (IF level \in {"HIGH", "CRITICAL"}
                  THEN <<"Flag for urgent review by human analyst.",
                         "Document incident and cross-reference with known threat actors.">>
                  ELSE <<>>)
        s1 == s0 \o (IF Has(hits, "cybersecurity")
                     THEN <<"Run endpoint scan; isolate affected systems if necessary.",
                            "Rotate credentials and invalidate active sessions.">> ELSE <<>>)
        s2 == s1 \o (IF Has(hits, "social_engineering")
                     THEN <<"Do not click links or provide credentials. Report as phishing.",
                            "Issue security awareness reminder to affected team/users.">> ELSE <<>>)
        s3 == s2 \o (IF Has(hits, "violence")
                     THEN <<"Notify appropriate authorities if credible and imminent.",
                            "Preserve evidence chain for potential legal action.">> ELSE <<>>)
        s4 == s3 \o (IF Has(hits, "hate_speech")
                     THEN <<"Remove content from platform per community guidelines.",
                            "Report to platform trust & safety team.">> ELSE <<>>)
        s5 == s4 \o (IF Has(hits, "misinformation")
                     THEN <<"Fact-check against verified sources before sharing.",
                            "Label content as potentially misleading if platform allows.">> ELSE <<>>)
        steps == s5 \o (IF Has(hits, "suspicious_activity")
                        THEN <<"Initiate deeper investigation of communication context.",
                               "Map relationship network around this source.">> ELSE <<>>)
    IN IF steps = <<>>
       THEN <<NO_ACTION, "Log for trend analysis and baseline comparison.">>
       ELSE steps

\* The plan falling back whenever no category is hit.
_mitigation_steps_by_hits(hits, score) ==
    LET level == _risk_level(score)
        s0 == IF level = "CRITICAL"
              THEN <<"IMMEDIATE ACTION: Escalate to security team / incident response.",
                     "Block and preserve the source for forensic analysis.">>
              ELSE IF level = "HIGH"
              THEN <<"Flag for urgent review by human analyst.",
                     "Document incident and cross-reference with known threat actors.">>
              ELSE <<>>
        s1 == s0 \o (IF Has(hits, "cybersecurity")
                     THEN <<"Run endpoint scan; isolate affected systems if necessary.",
                            "Rotate credentials and invalidate active sessions.">> ELSE <<>>)
        s2 == s1 \o (IF Has(hits, "social_engineering")
                     THEN <<"Do not click links or provide credentials. Report as phishing.",
                            "Issue security awareness reminder to affected team/users.">> ELSE <<>>)
        s3 == s2 \o (IF Has(hits, "violence")
                     THEN <<"Notify appropriate authorities if credible and imminent.",
                            "Preserve evidence chain for potential legal action.">> ELSE <<>>)
        s4 == s3 \o (IF Has(hits, "hate_speech")
                     THEN <<"Remove content from platform per community guidelines.",
                            "Report to platform trust & safety team.">> ELSE <<>>)
        s5 == s4 \o (IF Has(hits, "misinformation")
                     THEN <<"Fact-check against verified sources before sharing.",
                            "Label content as potentially misleading if platform allows.">> ELSE <<>>)
        steps == s5 \o (IF Has(hits, "suspicious_activity")
                        THEN <<"Initiate deeper investigation of communication context.",
                               "Map relationship network around this source.">> ELSE <<>>)
    IN IF hits = <<>>
       THEN <<NO_ACTION, "Log for trend analysis and baseline comparison.">>
       ELSE steps

_mitigation_steps(hits, score) ==
    LET level == _risk_level(score)
        s0 == IF level = "CRITICAL"
              THEN <<"IMMEDIATE ACTION: Escalate to security team / incident response.",
                     "Block and preserve the source for forensic analysis.">>
              ELSE IF level = "HIGH"
              THEN <<"Flag for urgent review by human analyst.",
                     "Document incident and cross-reference with known threat actors.">>
              ELSE <<>>
        s1 == s0 \o (IF Has(hits, "cybersecurity")
                     THEN <<"Run endpoint scan; isolate affected systems if necessary.",
                            "Rotate credentials and invalidate active sessions.">> ELSE <<>>)
        s2 == s1 \o (IF Has(hits, "social_engineering")
                     THEN <<"Do not click links or provide credentials. Report as phishing.",
                            "Issue security awareness reminder to affected team/users.">> ELSE <<>>)
        s3 == s2 \o (IF Has(hits, "violence")
                     THEN <<"Notify appropriate authorities if credible and imminent.",
                            "Preserve evidence chain for potential legal action.">> ELSE <<>>)
        s4 == s3 \o (IF Has(hits, "hate_speech")
                     THEN <<"Remove content from platform per community guidelines.",
                            "Report to platform trust & safety team.">> ELSE <<>>)
        s5 == s4 \o (IF Has(hits, "misinformation")
                     THEN <<"Fact-check against verified sources before sharing.",
                            "Label content as potentially misleading if platform allows.">> ELSE <<>>)
        steps == s5 \o (IF Has(hits, "suspicious_activity")
                        THEN <<"Initiate deeper investigation of communication context.",
                               "Map relationship network around this source.">> ELSE <<>>)
    IN IF steps = <<>>
       THEN <<NO_ACTION, "Log for trend analysis and baseline comparison.">>
       ELSE steps

\* f"{score:.1f}"
Fmt1(score) ==
    LET r == Round1(score)
    IN ToString(r \div 100) \o "." \o ToString((r % 100) \div 10)

\* The prompt _analyze_with_claude builds.
ClaudePrompt(text, pattern_score) ==
    "You are a cybersecurity and threat intelligence analyst. Analyze the following text for potential threats, harmful intent, or suspicious content. \n\nText to analyze:\n<text>"
        \o text
        \o "</text>\n\nPattern analysis has given this a preliminary risk score of "
        \o Fmt1(pattern_score)
        \o "/100.\n\nProvide a concise 2-3 sentence analysis covering:\n1. Your assessment of the actual threat level and why\n2. Any nuance or context the pattern matching may have missed\n3. Whether the pattern score seems appropriate\n\nBe analytical, not alarmist. Focus on genuine risks."

\* The outcomes of the try block of _analyze_with_claude.  sent: whether
\* client.messages.create was reached (the import and the client were
\* available); reply: response.content[0].text, or None when anything raised.
COMPLETIONS ==
    { [sent |-> FALSE, reply |-> None],
      [sent |-> TRUE, reply |-> None],
      [sent |-> TRUE, reply |-> Some("")],
      [sent |-> TRUE, reply |-> Some("Likely benign; the score seems appropriate.")] }

\* Returns Claude's analysis text or None on failure; `completion` is what the
\* external capability does with the request.
_analyze_with_claude(text, pattern_score, api_key, completion) == completion.reply

\* ---------------------------------------------------------------- inputs

\* Phrases the generated inputs are made of; between them they hit every rule
\* category, every entity class and the negative sentiment terms.
VOCABULARY ==
    <<"Kill", "hack", "jihad", "leak data", "fake prize", "burner",
      "bomb threat", "targets", "border">>

RECURSIVE Pick(_, _)
\* The phrases whose index is in S, in vocabulary order.
Pick(S, from) ==
    IF from > Len(VOCABULARY) THEN <<>>
    ELSE (IF from \in S THEN <<VOCABULARY[from]>> ELSE <<>>) \o Pick(S, from + 1)

GENERATED_TEXTS ==
    {Join(" ", Pick(S, 1)) : S \in {T \in SUBSET (1..Len(VOCABULARY)) : Cardinality(T) <= MaxWords}}

FIXED_TEXTS ==
    {"  ", " \n\t",
     "hello, see you at lunch",
     "new malware exploit targeting ransomware victims",
     "contact me at a@b.com or call 555-123-4567",
     "call 555-1234 tonight",
     "mail gun@bomb.com now",
     "server 192.168.1.100 or 1.2.3.4",
     "I love this great team",
     "They threaten to hurt you",
     "URGENT: Verify your PayPal account",
     "meet at the warehouse tonight, no trace"}

RECURSIVE PadTo(_, _)
\* t continued with filler words up to exactly n characters.
PadTo(t, n) == IF Len(t) >= n THEN SubSeq(t, 1, n) ELSE PadTo(t \o " lorem", n)

\* Texts at and past the 200 characters of the preview.
LONG_TEXTS ==
    {PadTo("mail a@b.com the report", 200),
     PadTo("mail a@b.com the report", 201),
     PadTo("call 555-123-4567 about the border", 230)}

TEXTS == GENERATED_TEXTS \cup FIXED_TEXTS \cup LONG_TEXTS

API_KEYS == {None, Some(""), Some("sk-ant-key")}

REQUESTS ==
    [text : TEXTS, anonymize : BOOLEAN, source : {"Text Input"},
     api_key : API_KEYS, use_claude : BOOLEAN]

\* What one call of analyze_text draws from outside its arguments: the
\* random id, the wall clock at the result's creation and the elapsed time
\* (in tenths of a millisecond), which change together from one call to the
\* next, and the behaviour of the completion capability.
AMBIENT ==
    { [id |-> 10000, now |-> "2026-11-04T10:00:00", elapsed |-> 1],
      [id |-> 99999, now |-> "2026-11-04T10:00:01", elapsed |-> 25] }

ENVS == [ambient : AMBIENT, completion : COMPLETIONS]

\* ---------------------------------------------------------- analyze_text

EMPTY_INPUT == [error |-> "Empty input provided."]

\* The emptiness test without its strip().
IsEmptyInput_unstripped(text) == text = ""

\* not text or not text.strip()
IsEmptyInput(text) == text = "" \/ Strip(text) = ""

\* A boost counting each entity class once, however many keywords it has.
entity_boost_per_class(entities) ==
    (IF Has(entities, "weapons") THEN Pt(8) ELSE 0)
    + (IF Has(entities, "threat_terms") THEN Pt(10) ELSE 0)
    + (IF Has(entities, "location_risk") THEN Pt(4) ELSE 0)

\* The boost of analyze_text for entity presence.
entity_boost(entities) ==
    Len(Get(entities, "weapons", <<>>)) * Pt(8)
    + Len(Get(entities, "threat_terms", <<>>)) * Pt(10)
    + Len(Get(entities, "location_risk", <<>>)) * Pt(4)

\* The sum without its cap.
raw_score_uncapped(pattern_score, boost) == pattern_score + boost

\* The sum wrapping around past 97 where the code saturates.
raw_score_wrapping(pattern_score, boost) == (pattern_score + boost) % (Pt(97) + 1)

\* raw_score = min(97.0, pattern_score + entity_boost)
raw_score_of(pattern_score, boost) == Min(Pt(97), pattern_score + boost)

\* Flagging strictly above the threshold.
Flagged_above(risk_score) == risk_score > Pt(30)

\* "flagged": risk_score >= 30
Flagged(risk_score) == risk_score >= Pt(30)

\* A preview marking every text of 200 characters or more as cut.
ContentPreview_inclusive(text) ==
    SubSeq(text, 1, Min(200, Len(text))) \o (IF Len(text) >= 200 THEN "..." ELSE "")

\* text[:200] + ("..." if len(text) > 200 else "")
ContentPreview(text) ==
    SubSeq(text, 1, Min(200, Len(text))) \o (IF Len(text) > 200 THEN "..." ELSE "")

\* The rest of analyze_text's local analysis once raw_score is known: level,
\* categories, pattern explanation and mitigation plan.
Assess(processed_text, ps, entities, sent, raw_score) ==
    [processed_text |-> processed_text,
     pattern |-> ps,
     entities |-> entities,
     sentiment |-> sent,
     raw_score |-> raw_score,
     risk_level |-> _risk_level(raw_score),
     categories |-> [i \in 1..Len(ps.hits) |-> Readable(ps.hits[i].k)],
     explanation |-> _build_explanation(raw_score, ps.hits, entities, sent.label),
     mitigation |-> _mitigation_steps(ps.hits, raw_score)]

\* The aggregation of the pattern score and the entity boost.
Aggregate(processed_text, ps, entities, sent) ==
    Assess(processed_text, ps, entities, sent,
           raw_score_of(ps.raw_score, entity_boost(entities)))

\* The three scorers, each handed processed_text.
Scored(processed_text) ==
    Aggregate(processed_text, _pattern_score(processed_text),
              _extract_entities(processed_text), _sentiment_score(processed_text))

\* Everything analyze_text computes from text and anonymize alone.
Deterministic(text, anonymize) == Scored(IF anonymize THEN _anonymize(text) ELSE text)

\* Deterministic, evaluated once for each input of the model.
DETERMINISTIC ==
    {[text |-> t, anonymize |-> a, d |-> Deterministic(t, a)] : t \in TEXTS, a \in BOOLEAN}

Analysis(text, anonymize) ==
    (CHOOSE m \in DETERMINISTIC : m.text = text /\ m.anonymize = anonymize).d

\* The explanation prefixed whether or not there is a reasoning.
Explain_unconditional(claude_reasoning, explanation) ==
    "**AI Analysis:** "
        \o (IF claude_reasoning = None THEN "None" ELSE claude_reasoning[1])
        \o "\n\n**Pattern Analysis:** " \o explanation

\* explanation, with Claude's reasoning in front when there is one
Explain(claude_reasoning, explanation) ==
    IF Truthy(claude_reasoning)
    THEN "**AI Analysis:** " \o claude_reasoning[1] \o "\n\n**Pattern Analysis:** " \o explanation
    ELSE explanation

ModelLabel(claude_reasoning) ==
    "SentinelAI Pattern Engine" \o (IF Truthy(claude_reasoning) THEN " + Claude" ELSE "")

\* The condition without the use_claude flag.
AskClaude_ignoring_flag(api_key, use_claude) == Truthy(api_key)

\* if use_claude and api_key
AskClaude(api_key, use_claude) == use_claude /\ Truthy(api_key)

\* The result dict, d being the local analysis and claude_reasoning what the
\* augmentation gave.
ResultDict(text, anonymize, source, env, d, claude_reasoning) ==
    [id |-> "SENT-" \o ToString(env.ambient.id),
     timestamp |-> env.ambient.now,
     source |-> source,
     content_preview |-> ContentPreview(text),
     content_hash |-> [sha256_16 |-> text],
     risk_score |-> Round1(d.raw_score),
     risk_level |-> d.risk_level,
     flagged |-> Flagged(d.raw_score),
     categories |-> d.categories,
     entities |-> d.entities,
     sentiment |-> d.sentiment.label,
     sentiment_strength |-> RoundDiv(100 * d.sentiment.num, d.sentiment.den),
     language |-> "English",
     pattern_hits |-> d.pattern.hits,
     explanation |-> Explain(claude_reasoning, d.explanation),
     mitigation_steps |-> d.mitigation,
     processing_time_ms |-> env.ambient.elapsed,
     anonymized |-> anonymize,
     model |-> ModelLabel(claude_reasoning)]

\* The calls analyze_text makes to the redactor, the three scorers and the
\* completion capability, in order, each with the text it is handed.
CallsMade(text, anonymize, ask_claude, env, d, claude_reasoning) ==
    (IF anonymize
     THEN <<[fn |-> "_anonymize", arg |-> text, ret |-> d.processed_text]>>
     ELSE <<>>)
    \o <<[fn |-> "_pattern_score", arg |-> d.processed_text, ret |-> d.pattern],
         [fn |-> "_extract_entities", arg |-> d.processed_text, ret |-> d.entities],
         [fn |-> "_sentiment_score", arg |-> d.processed_text, ret |-> d.sentiment]>>
    \o (IF ask_claude /\ env.completion.sent
        THEN <<[fn |-> "messages.create",
                arg |-> ClaudePrompt(d.processed_text, d.raw_score),
                ret |-> claude_reasoning]>>
        ELSE <<>>)

\* The value of analyze_text once the augmentation has answered.
Augmented(text, anonymize, source, api_key, use_claude, env, d, claude_reasoning) ==
    [ret |-> ResultDict(text, anonymize, source, env, d, claude_reasoning),
     calls |-> CallsMade(text, anonymize, AskClaude(api_key, use_claude), env, d,
                         claude_reasoning)]

\* A variant that reports the elapsed time in the explanation.
Analyzed_timed(text, anonymize, source, api_key, use_claude, env, d) ==
    Augmented(text, anonymize, source, api_key, use_claude, env,
              [d EXCEPT !.explanation =
                            @ \o " (" \o ToString(env.ambient.elapsed) \o " ms)"],
              IF AskClaude(api_key, use_claude)
              THEN _analyze_with_claude(d.processed_text, d.raw_score, api_key[1],
                                        env.completion)
              ELSE None)

\* A variant in which a reply of the capability raises the score by 10.
Analyzed_rescoring(text, anonymize, source, api_key, use_claude, env, d) ==
    Augmented(text, anonymize, source, api_key, use_claude, env,
              IF AskClaude(api_key, use_claude) /\ Truthy(env.completion.reply)
              THEN [d EXCEPT !.raw_score = Min(Pt(97), @ + Pt(10))]
              ELSE d,
              IF AskClaude(api_key, use_claude)
              THEN _analyze_with_claude(d.processed_text, d.raw_score, api_key[1],
                                        env.completion)
              ELSE None)

\* analyze_text from the augmentation on; d is the local analysis.
Analyzed(text, anonymize, source, api_key, use_claude, env, d) ==
    Augmented(text, anonymize, source, api_key, use_claude, env, d,
              IF AskClaude(api_key, use_claude)
              THEN _analyze_with_claude(d.processed_text, d.raw_score, api_key[1],
                                        env.completion)
              ELSE None)

\* analyze_text(text, anonymize, source, api_key, use_claude), env being what
\* the call draws from outside.  The value is [ret |-> the returned dict,
\* calls |-> the calls made].
analyze_text(text, anonymize, source, api_key, use_claude, env) ==
    IF IsEmptyInput(text) THEN [ret |-> EMPTY_INPUT, calls |-> <<>>]
    ELSE Analyzed(text, anonymize, source, api_key, use_claude, env,
                  Analysis(text, anonymize))

\* ------------------------------------------------------------ the machine

VARIABLES
    request,    \* the arguments the caller passes to analyze_text
    result,     \* None, or the dict the last call returned
    calls       \* the calls the last analyze_text made, with their arguments

vars == <<request, result, calls>>

Init ==
    /\ request \in REQUESTS
    /\ result = None
    /\ calls = <<>>

\* One call of analyze_text with the request's arguments.
Analyze ==
    \E env \in ENVS :
        LET out == analyze_text(request.text, request.anonymize, request.source,
                                request.api_key, request.use_claude, env)
        IN /\ result' = Some(out.ret)
           /\ calls' = out.calls
           /\ UNCHANGED request

Next == Analyze

Spec == Init /\ [][Next]_vars

\* ------------------------------------------------- _risk_level on its own

\* The scores _risk_level is applied to: 0.00 up to MaxScore.00.
LEVEL_SCORES == 0..Pt(MaxScore)

InitLevel ==
    /\ request \in [score : LEVEL_SCORES]
    /\ result = None
    /\ calls = <<>>

\* One call of _risk_level with the request's score.
Classify ==
    /\ result' = Some(_risk_level(request.score))
    /\ UNCHANGED <<request, calls>>

NextLevel == Classify

SpecLevel == InitLevel /\ [][NextLevel]_vars

\* ----------------------------------------------- _pattern_score on its own

InitPattern ==
    /\ request \in [text : TEXTS]
    /\ result = None
    /\ calls = <<>>

\* One call of _pattern_score with the request's text.
Match ==
    /\ result' = Some(_pattern_score(request.text))
    /\ UNCHANGED <<request, calls>>

NextPattern == Match

SpecPattern == InitPattern /\ [][NextPattern]_vars

\* -------------------------------------------------- _anonymize on its own

\* Fragments the texts handed to _anonymize are made of: email addresses,
\* phone numbers of 7 to 15 digits with and without separators, dotted quads
\* short and long, and plain words.
PII_VOCABULARY ==
    <<"a@b.com", "555-1234", "555-123-4567", "+1 (555) 123-4567", "192.168.1.100",
      "1.2.3.4", "call", "x.y+z@mail-1.org", "10.0.0.12">>

RECURSIVE PickFrom(_, _, _)
\* The items of vocabulary whose index is in S, in order.
PickFrom(vocabulary, S, from) ==
    IF from > Len(vocabulary) THEN <<>>
    ELSE (IF from \in S THEN <<vocabulary[from]>> ELSE <<>>)
             \o PickFrom(vocabulary, S, from + 1)

PII_TEXTS ==
    {Join(" ", PickFrom(PII_VOCABULARY, S, 1)) :
        S \in {T \in SUBSET (1..Len(PII_VOCABULARY)) : Cardinality(T) <= MaxWords}}

InitAnonymize ==
    /\ request \in [text : PII_TEXTS]
    /\ result = None
    /\ calls = <<>>

\* One call of _anonymize: with the request's text first, then with what the
\* call before returned.
Redact ==
    /\ Len(calls) < MaxPasses
    /\ LET arg == IF result = None THEN request.text ELSE result[1]
           ret == _anonymize(arg)
       IN /\ result' = Some(ret)
          /\ calls' = Append(calls, [fn |-> "_anonymize", arg |-> arg, ret |-> ret])
    /\ UNCHANGED request

NextAnonymize == Redact

SpecAnonymize == InitAnonymize /\ [][NextAnonymize]_vars

\* --------------------------------------------- _sentiment_score on its own

\* The counts of matched terms: each term of a list counts at most once.
InitSentiment ==
    /\ request \in [pos : 0..Len(positive_terms), neg : 0..Len(negative_terms)]
    /\ result = None
    /\ calls = <<>>

Decide ==
    /\ result = None
    /\ LET ret == SentimentOf(request.pos, request.neg)
       IN /\ result' = Some(ret)
          /\ calls' = Append(calls, [fn |-> "_sentiment_score", arg |-> request, ret |-> ret])
    /\ UNCHANGED request

NextSentiment == Decide

SpecSentiment == InitSentiment /\ [][NextSentiment]_vars

\* --------------------------------------------- _mitigation_steps on its own

\* One matched string for each category of the rule table.
SAMPLE_MATCHES ==
    << [k |-> "violence", v |-> <<"bomb">>],
       [k |-> "cybersecurity", v |-> <<"malware">>],
       [k |-> "social_engineering", v |-> <<"prize">>],
       [k |-> "hate_speech", v |-> <<"extremist">>],
       [k |-> "misinformation", v |-> <<"hoax">>],
       [k |-> "suspicious_activity", v |-> <<"burner">>],
       [k |-> "data_exfiltration", v |-> <<"leak the data">>] >>

\* hits as _pattern_score leaves it for the categories of S: one item per
\* hit category, in the order of the rule table.
HitsOf(S) == SelectSeq(SAMPLE_MATCHES, LAMBDA item : item.k \in S)

RECURSIVE TotalWeight(_, _)
\* total_weight of _pattern_score for the items of hits from the k-th on.
TotalWeight(hits, k) ==
    IF k > Len(hits) THEN 0 ELSE Pt(weights[hits[k].k]) + TotalWeight(hits, k + 1)

\* The values of entity_boost: 8 for each weapon, 10 for each threat term and
\* 4 for each location term found.
ENTITY_BOOSTS ==
    {w * Pt(8) + t * Pt(10) + l * Pt(4) :
        w \in 0..Len(WEAPON_ENTITIES), t \in 0..Len(THREAT_ENTITIES),
        l \in 0..Len(LOCATION_RISK_TERMS)}

\* The arguments analyze_text passes: hits, and the capped pattern score of
\* the hits raised by an entity boost.
InitMitigation ==
    /\ request \in {[hits |-> HitsOf(S),
                     score |-> raw_score_of(Min(Pt(95), TotalWeight(HitsOf(S), 1)), boost)] :
                        S \in SUBSET DOMAIN weights, boost \in ENTITY_BOOSTS}
    /\ result = None
    /\ calls = <<>>

Plan ==
    /\ result = None
    /\ LET ret == _mitigation_steps(request.hits, request.score)
       IN /\ result' = Some(ret)
          /\ calls' = Append(calls, [fn |-> "_mitigation_steps", arg |-> request, ret |-> ret])
    /\ UNCHANGED request

NextMitigation == Plan

SpecMitigation == InitMitigation /\ [][NextMitigation]_vars

\* ------------------------------------------------------------ live feed

\* The samples of generate_live_feed_item: a text and its base score.
samples ==
    << [text |-> "Just checking in - everything okay on your end?", base_score |-> 5],
       [text |-> "URGENT: Verify your banking credentials immediately or account suspended.",
        base_score |-> 78],
       [text |-> "The quarterly report looks great, well done team.", base_score |-> 4],
       [text |-> "We need to talk. Meet me at the old warehouse at midnight. Delete this.",
        base_score |-> 72],
       [text |-> "Malware sample exfiltrating financial records from internal server.",
        base_score |-> 88],
       [text |-> "Happy to share the project update with everyone!", base_score |-> 6],
       [text |-> "Explosive devices rigged at three locations. Ready for signal.",
        base_score |-> 95],
       [text |-> "Can someone send me the API documentation link?", base_score |-> 3],
       [text |-> "They won't know what hit them. I have access to their systems.",
        base_score |-> 82],
       [text |-> "Great work on the presentation! See you at the conference.", base_score |-> 5],
       [text |-> "BREAKING: Source claims government suppressing cure - share before deleted!",
        base_score |-> 61],
       [text |-> "New zero-day exploit available for financial sector targets. $50k.",
        base_score |-> 91],
       [text |-> "Traffic's bad today, working from home this afternoon.", base_score |-> 2],
       [text |-> "The package will cross the border tonight. No records.", base_score |-> 69],
       [text |-> "Feeling anxious about the deadline but we'll manage it.", base_score |-> 8] >>

\* The values of random.uniform(-5, 5), to the hundredth.
NOISES == (0 - Pt(5))..Pt(5)

LIVE_SOURCES ==
    <<"Twitter/X Stream", "Telegram Monitor", "Chat Simulator", "News Feed", "Email Gateway">>

\* any(w in text_lower for w in words)
AnyIn(words, text_lower) == \E i \in 1..Len(words) : Contains(text_lower, words[i])

_quick_categories(text) ==
    LET text_lower == Lower(text)
    IN (IF AnyIn(<<"kill", "explosive", "attack", "weapon">>, text_lower)
        THEN <<"Violence">> ELSE <<>>)
       \o (IF AnyIn(<<"malware", "exploit", "hack", "zero-day">>, text_lower)
           THEN <<"Cybersecurity">> ELSE <<>>)
       \o (IF AnyIn(<<"verify", "suspended", "urgent", "credentials">>, text_lower)
           THEN <<"Phishing">> ELSE <<>>)
       \o (IF AnyIn(<<"suppressed", "breaking", "share before">>, text_lower)
           THEN <<"Misinformation">> ELSE <<>>)
       \o (IF AnyIn(<<"warehouse", "border", "package", "midnight">>, text_lower)
           THEN <<"Suspicious Activity">> ELSE <<>>)

\* The dict generate_live_feed_item returns for a score.
LiveItem(sample, score, ambient, source) ==
    [id |-> "LIVE-" \o ToString(ambient.id),
     timestamp |-> ambient.now,
     source |-> source,
     content_preview |-> sample.text,
     risk_score |-> Round1(score),
     risk_level |-> _risk_level(score),
     flagged |-> Flagged(score),
     categories |-> _quick_categories(sample.text),
     sentiment |-> IF score > Pt(50) THEN "Negative"
                   ELSE IF score < Pt(20) THEN "Positive" ELSE "Neutral",
     language |-> "English"]

\* generate_live_feed_item(), choice being what the call draws at random:
\* the sample, the noise, the id and clock, and the source.
generate_live_feed_item(choice) ==
    LET sample == samples[choice.sample]
        score == Max(0, Min(Pt(100), Pt(sample.base_score) + choice.noise))
    IN LiveItem(sample, score, choice.ambient, choice.source)

\* ------------------------------------ generate_live_feed_item on its own

InitFeedItem ==
    /\ request \in [sample : 1..Len(samples), noise : NOISES,
                    ambient : {a \in AMBIENT : a.id = 10000}, source : {LIVE_SOURCES[1]}]
    /\ result = None
    /\ calls = <<>>

Generate ==
    /\ result = None
    /\ result' = Some(generate_live_feed_item(request))
    /\ UNCHANGED <<request, calls>>

NextFeedItem == Generate

SpecFeedItem == InitFeedItem /\ [][NextFeedItem]_vars

\* ------------------------------------------------------ document upload
\* _render_document_upload of ui/pages/analysis_studio.py: the handler of the
\* "Analyze Document" button.

RECURSIVE Doubled(_, _)
\* t repeated 2^k times.
Doubled(t, k) == IF k = 0 THEN t ELSE Doubled(t \o t, k - 1)

\* A block of 2000 characters of running text under its own heading.
Block(label) ==
    SubSeq("section " \o label \o ":" \o Doubled(" lorem ipsum", 8), 1, 2000)

\* A document of 12,000 characters.
LONG_DOCUMENT ==
    Block("1") \o Block("2") \o Block("3") \o Block("4") \o Block("5") \o Block("6")

\* Uploaded contents: empty, blank, short, at and next to one chunk, with a
\* blank tail, at and next to the 10,000 characters read, and beyond.
DOCUMENTS ==
    {"", " \n ", "draft notes",
     SubSeq(LONG_DOCUMENT, 1, 2000), SubSeq(LONG_DOCUMENT, 1, 2001),
     Block("1") \o " \n ",
     SubSeq(LONG_DOCUMENT, 1, 9999), SubSeq(LONG_DOCUMENT, 1, 10000),
     SubSeq(LONG_DOCUMENT, 1, 10001), LONG_DOCUMENT}

\* list(range(0, stop, step)), for a positive step
RangeStep(stop, step) == [k \in 1..((stop + step - 1) \div step) |-> (k - 1) * step]

\* [content[i:i+2000] for i in range(0, min(len(content), 10000), 2000)]
Chunks(content) ==
    LET starts == RangeStep(Min(Len(content), 10000), 2000)
    IN [k \in 1..Len(starts) |->
            SubSeq(content, starts[k] + 1, Min(starts[k] + 2000, Len(content)))]

\* items[:n]
Take(items, n) == SubSeq(items, 1, Min(n, Len(items)))

\* x.get("risk_score", 0)
RiskScoreOf(x) == IF "risk_score" \in DOMAIN x THEN x.risk_score ELSE 0

\* The last of the results with the highest key.
Best_latest(results) ==
    results[CHOOSE i \in 1..Len(results) :
                /\ \A j \in 1..Len(results) : RiskScoreOf(results[j]) <= RiskScoreOf(results[i])
                /\ \A j \in (i + 1)..Len(results) :
                       RiskScoreOf(results[j]) < RiskScoreOf(results[i])]

\* max(results, key=lambda x: x.get("risk_score", 0)): the first of the
\* results with the highest key.
Best(results) ==
    results[CHOOSE i \in 1..Len(results) :
                /\ \A j \in 1..Len(results) : RiskScoreOf(results[j]) <= RiskScoreOf(results[i])
                /\ \A j \in 1..(i - 1) : RiskScoreOf(results[j]) < RiskScoreOf(results[i])]

\* The texts whose local analyses stand for those of the chunks.
CHUNK_TEXTS == {"hello, see you at lunch", "They threaten to hurt you"}

\* What the scorers can make of a chunk.  The rules are not run over the
\* 2000 characters of a chunk: its local analysis is left open, any of these.
CHUNK_ANALYSES(anonymize) == {Analysis(t, anonymize) : t \in CHUNK_TEXTS}

\* What a call without augmentation draws from outside.
CHUNK_ENVS == {env \in ENVS : env.completion = [sent |-> FALSE, reply |-> None]}

\* analyze_text(chunk, anonymize=..., source=...), d being the local analysis.
AnalyzeChunk(chunk, anonymize, source, env, d) ==
    IF IsEmptyInput(chunk) THEN EMPTY_INPUT
    ELSE Analyzed(chunk, anonymize, source, None, FALSE, env, d).ret

\* any(r.get("flagged") for r in results)
AnyFlagged(results) ==
    \E i \in 1..Len(results) : "flagged" \in DOMAIN results[i] /\ results[i].flagged

\* The session state the handler leaves, from an empty history and no stats;
\* max() of no result raises ValueError once doc_results is stored.
Session(results) ==
    IF results = <<>>
    THEN [doc_results |-> results, analysis_history |-> <<>>, raised |-> "ValueError",
          global_stats |-> [total_analyzed |-> 0, threats_detected |-> 0]]
    ELSE [doc_results |-> results, analysis_history |-> <<Best(results)>>, raised |-> "",
          global_stats |-> [total_analyzed |-> Len(results),
                            threats_detected |-> IF AnyFlagged(results) THEN 1 ELSE 0]]

InitDocument ==
    /\ request \in [content : DOCUMENTS, anonymize : BOOLEAN, name : {"report.txt"}]
    /\ result = None
    /\ calls = <<>>

\* One click on "Analyze Document".
AnalyzeDocument ==
    /\ result = None
    /\ LET chunks == Take(Chunks(request.content), 5)
       IN \E drawn \in [1..Len(chunks) -> CHUNK_ENVS \X CHUNK_ANALYSES(request.anonymize)] :
            LET results == [i \in 1..Len(chunks) |->
                               AnalyzeChunk(chunks[i], request.anonymize,
                                            "Document: " \o request.name,
                                            drawn[i][1], drawn[i][2])]
            IN /\ result' = Some(Session(results))
               /\ calls' = [i \in 1..Len(chunks) |->
                               [fn |-> "analyze_text", arg |-> chunks[i], ret |-> results[i]]]
    /\ UNCHANGED request

NextDocument == AnalyzeDocument

SpecDocument == InitDocument /\ [][NextDocument]_vars

\* ------------------------------------------------------------ the session
\* st.session_state and the handlers that write it: init_session_state
\* (utils/session_state.py), the sidebar (ui/sidebar.py), the Analysis Studio
\* (ui/pages/analysis_studio.py) and Live Monitoring (ui/pages/live_monitoring.py).
\* request is the last interaction and their number, result the session state,
\* calls the calls the last script run made.  Of global_stats the two counters
\* are kept; avg_risk_score and false_positives are display values.

\* The rows of _seed_demo_data.
SEEDS ==
    << [text |-> "System update required immediately. Click here to verify your account.",
        score |-> 72, level |-> "HIGH", cats |-> <<"Phishing", "Social Engineering">>,
        entities |-> <<"account", "verify">>, sentiment |-> "Urgent"],
       [text |-> "Had a great meeting today, excited about the new project direction.",
        score |-> 8, level |-> "SAFE", cats |-> <<>>, entities |-> <<>>,
        sentiment |-> "Positive"],
       [text |-> "The shipment will arrive at the warehouse district tonight. Coordinates sent separately.",
        score |-> 55, level |-> "MEDIUM", cats |-> <<"Suspicious Activity", "Location Data">>,
        entities |-> <<"warehouse", "coordinates">>, sentiment |-> "Neutral"],
       [text |-> "Breaking: Multiple explosions reported near the city center. Casualties unknown.",
        score |-> 63, level |-> "HIGH", cats |-> <<"Violence", "Breaking News">>,
        entities |-> <<"explosions", "city center">>, sentiment |-> "Alarming"],
       [text |-> "Please find attached the Q3 financial report for your review.",
        score |-> 5, level |-> "SAFE", cats |-> <<>>, entities |-> <<>>,
        sentiment |-> "Professional"],
       [text |-> "They will regret this. I know where they live and work. Watch.",
        score |-> 91, level |-> "CRITICAL", cats |-> <<"Threat", "Harassment", "Violence">>,
        entities |-> <<"threat", "location">>, sentiment |-> "Hostile"],
       [text |-> "New malware strain detected targeting financial institutions globally.",
        score |-> 68, level |-> "HIGH", cats |-> <<"Cybersecurity", "Malware">>,
        entities |-> <<"malware", "financial">>, sentiment |-> "Alarming"],
       [text |-> "The community garden project is coming along beautifully this spring.",
        score |-> 3, level |-> "SAFE", cats |-> <<>>, entities |-> <<>>,
        sentiment |-> "Positive"] >>

\* One record of sample_results; the id, the time and the source are drawn
\* at random by the code.
SeedRecord(seed, ambient, source) ==
    [id |-> "SENT-" \o ToString(ambient.id),
     timestamp |-> ambient.now,
     source |-> source,
     content_preview |-> seed.text,
     risk_score |-> Pt(seed.score),
     risk_level |-> seed.level,
     categories |-> seed.cats,
     entities |-> seed.entities,
     sentiment |-> seed.sentiment,
     language |-> "English",
     flagged |-> seed.score > 40]

SEED_ALERTS ==
    << [level |-> "CRITICAL", message |-> "Threat language detected in live feed stream",
        time |-> "2 min ago"],
       [level |-> "HIGH", message |-> "Suspicious document uploaded - weapons reference found",
        time |-> "8 min ago"],
       [level |-> "MEDIUM", message |-> "Anomalous behavioral pattern from feed source #3",
        time |-> "15 min ago"],
       [level |-> "LOW", message |-> "Elevated phishing keywords in monitored channel",
        time |-> "32 min ago"] >>

\* The defaults of init_session_state.
DEFAULTS ==
    [threat_level |-> "MODERATE",
     local_mode |-> TRUE,
     anonymize |-> TRUE,
     anthropic_api_key |-> "",
     analysis_history |-> <<>>,
     live_feed |-> <<>>,
     global_stats |-> [total_analyzed |-> 0, threats_detected |-> 0],
     alerts |-> <<>>,
     monitoring_active |-> FALSE,
     copilot_chat |-> <<>>,
     last_result |-> None,
     doc_results |-> <<>>]

\* sum(1 for r in records if r["flagged"])
RECURSIVE CountFlagged(_)
CountFlagged(records) ==
    IF records = <<>> THEN 0
    ELSE (IF Head(records).flagged THEN 1 ELSE 0) + CountFlagged(Tail(records))

_seed_demo_data(state, ambient) ==
    LET sample_results == [i \in 1..Len(SEEDS) |-> SeedRecord(SEEDS[i], ambient, "Text Input")]
    IN [state EXCEPT !.analysis_history = sample_results,
                     !.global_stats = [total_analyzed |-> Len(sample_results),
                                       threats_detected |-> CountFlagged(sample_results)],
                     !.alerts = SEED_ALERTS]

\* A variant that seeds the demo data on every run.
init_session_state_reseeding(state, ambient) == _seed_demo_data(state, ambient)

\* init_session_state() on a session whose keys are all set: the demo data
\* is seeded if the history is empty.
init_session_state(state, ambient) ==
    IF state.analysis_history = <<>> THEN _seed_demo_data(state, ambient) ELSE state

\* The id and clock the session's calls draw.
SESSION_AMBIENT == CHOOSE a \in AMBIENT : a.id = 10000

\* A variant that counts a flagged item as a threat only.
Counted_threats_apart(stats, flagged) ==
    [stats EXCEPT !.total_analyzed = IF flagged THEN @ ELSE @ + 1,
                  !.threats_detected = IF flagged THEN @ + 1 ELSE @]

\* The update of the counters for one analyzed item.
Counted(stats, flagged) ==
    [stats EXCEPT !.total_analyzed = @ + 1,
                  !.threats_detected = IF flagged THEN @ + 1 ELSE @]

\* A variant in which a HIGH item sets the threat level whatever it was.
WithItem_latest(state, item) ==
    LET new_alert == [level |-> item.risk_level,
                      message |-> "Live feed threat: "
                                      \o SubSeq(item.content_preview, 1,
                                                Min(60, Len(item.content_preview)))
                                      \o "...",
                      time |-> "just now"]
    IN [state EXCEPT
           !.live_feed = <<item>> \o @,
           !.global_stats = Counted(@, item.flagged),
           !.alerts = IF item.flagged /\ item.risk_level \in {"CRITICAL", "HIGH"}
                      THEN Take(<<new_alert>> \o @, 10) ELSE @,
           !.threat_level = IF item.risk_level = "CRITICAL" THEN "CRITICAL"
                            ELSE IF item.risk_level = "HIGH" THEN "HIGH"
                            ELSE @]

\* The body of the monitoring loop for one generated item.
WithItem(state, item) ==
    LET new_alert == [level |-> item.risk_level,
                      message |-> "Live feed threat: "
                                      \o SubSeq(item.content_preview, 1,
                                                Min(60, Len(item.content_preview)))
                                      \o "...",
                      time |-> "just now"]
    IN [state EXCEPT
           !.live_feed = <<item>> \o @,
           !.global_stats = Counted(@, item.flagged),
           !.alerts = IF item.flagged /\ item.risk_level \in {"CRITICAL", "HIGH"}
                      THEN Take(<<new_alert>> \o @, 10) ELSE @,
           !.threat_level = IF item.risk_level = "CRITICAL" THEN "CRITICAL"
                            ELSE IF item.risk_level = "HIGH" /\ @ # "CRITICAL" THEN "HIGH"
                            ELSE @]

RECURSIVE WithItems(_, _)
\* The monitoring loop over the generated items, in order.
WithItems(state, items) ==
    IF items = <<>> THEN state ELSE WithItems(WithItem(state, Head(items)), Tail(items))

\* The feed simulation of render_live_monitoring: nothing unless monitoring
\* is active; the new items, then the feed cut to its first 100.
Simulated(state, items) ==
    IF state.monitoring_active
    THEN LET fed == WithItems(state, items)
         IN [fed EXCEPT !.live_feed = IF Len(@) > 100 THEN SubSeq(@, 1, 100) ELSE @]
    ELSE state

\* The run of "Analyze Now": the feed simulation, then, for a text that is
\* not blank, its analysis put in front of the history and of the feed.  The
\* value is [state |-> the session, calls |-> the calls made].
QuickAnalyzed(state, text, items, ambient) ==
    LET simulated == Simulated(state, items)
    IN IF Strip(text) = "" THEN [state |-> simulated, calls |-> <<>>]
       ELSE LET out == analyze_text(text, simulated.anonymize, "Quick Analyze", None, FALSE,
                                    [ambient |-> ambient,
                                     completion |-> [sent |-> FALSE, reply |-> None]])
            IN [state |-> [simulated EXCEPT !.analysis_history = <<out.ret>> \o @,
                                            !.live_feed = <<out.ret>> \o @,
                                            !.global_stats = Counted(@, out.ret.flagged)],
                calls |-> out.calls]

\* The responses of the copilot's local fallback, in the order they are tried.
LOCAL_RESPONSES ==
    << [k |-> "phishing", v |-> "Phishing attacks exploit urgency, authority, and fear. Key indicators include: mismatched sender domains, urgent action required, generic greetings, suspicious links (hover to check URL), and requests for credentials. Our pattern engine flags these via social engineering rules."],
       [k |-> "critical", v |-> "A CRITICAL risk score (75+) indicates high-confidence detection of imminent or severe threat indicators - violence, critical infrastructure threats, or confirmed malware. Immediate escalation to your security team is recommended. Document everything and preserve evidence."],
       [k |-> "investigate", v |-> "Investigation workflow: 1) Preserve the content and source metadata, 2) Cross-reference with known threat actor TTPs, 3) Map entity relationships using the network graph, 4) Check for behavioral patterns over time, 5) Escalate if confidence is high."],
       [k |-> "insider", v |-> "Insider threat indicators: unusual access times, mass data downloads, accessing restricted resources, communication with external parties about internal systems, and emotional indicators in communications. Our behavioral anomaly detection watches for deviations from baselines."],
       [k |-> "false positive", v |-> "To reduce false positives: provide more context via the Analysis Studio, use the 'Benign' feedback option, and adjust sensitivity in settings. Our engine learns from corrections over time when in online learning mode."] >>

LOCAL_DEFAULT ==
    "Based on current threat intelligence patterns, I'd recommend examining the source context, cross-referencing against known threat actor TTPs, and considering the behavioral baseline. If you provide me with specific content or a risk report, I can give you a more targeted assessment. Would you like me to walk you through the investigation methodology?"

\* _copilot_response(user_input, history, api_key); completion is what the
\* external capability does with the request.  The value is [ret |-> the
\* response, calls |-> the calls made].
_copilot_response(user_input, history, api_key, completion) ==
    LET input_lower == Lower(user_input)
        matching == SelectSeq(LOCAL_RESPONSES, LAMBDA item : Contains(input_lower, item.k))
        local == IF matching # <<>> THEN matching[1].v ELSE LOCAL_DEFAULT
        messages == SubSeq(history, Max(1, Len(history) - 9), Len(history))
        asked == api_key # "" /\ completion.sent
    IN [ret |-> IF asked /\ completion.reply # None THEN completion.reply[1] ELSE local,
        calls |-> IF asked
                  THEN <<[fn |-> "messages.create", arg |-> messages, ret |-> completion.reply]>>
                  ELSE <<>>]

\* ---- what the user and the outside give the handlers

SESSION_TEXTS == {"  ", "hello, see you at lunch", "They threaten to hurt you"}

SESSION_DOCUMENTS == {"", " \n ", "draft notes"}

\* The completion capability reached: it fails, or it replies.
SESSION_COMPLETIONS == {c \in COMPLETIONS : c.sent /\ c.reply # Some("")}

\* The items a refresh can generate: a HIGH and a CRITICAL one.
LIVE_CHOICES ==
    {[sample |-> i, noise |-> 0, ambient |-> SESSION_AMBIENT, source |-> LIVE_SOURCES[1]] :
        i \in {4, 7}}

\* for _ in range(random.randint(1, 3)): item = generate_live_feed_item()
GENERATED_ITEMS ==
    UNION {[1..num_new -> {generate_live_feed_item(choice) : choice \in LIVE_CHOICES}] :
              num_new \in 1..3}

COPILOT_INPUTS == {"How should I handle a CRITICAL threat alert?"}

\* ---- the handlers, each one script run from init_session_state on

session == result[1]

\* The session as the run finds it after init_session_state.
started == init_session_state(session, SESSION_AMBIENT)

OpsLeft == request.n < MaxOps

Done(op, state, made) ==
    /\ request' = [op |-> op, n |-> request.n + 1]
    /\ result' = Some(state)
    /\ calls' = made

InitSession ==
    /\ request = [op |-> "open", n |-> 0]
    /\ result = Some(init_session_state(DEFAULTS, SESSION_AMBIENT))
    /\ calls = <<>>

\* Any run that renders a page without a handler acting.
Rerender == OpsLeft /\ Done("rerender", started, <<>>)

\* The sidebar toggle "Local Processing Mode".
ToggleLocalMode ==
    OpsLeft /\ Done("local_mode", [started EXCEPT !.local_mode = ~@], <<>>)

\* The sidebar's API key input.
SetApiKey ==
    /\ OpsLeft
    /\ \E api_key \in {"", "sk-ant-key"} :
          Done("api_key",
               IF api_key # "" THEN [started EXCEPT !.anthropic_api_key = api_key]
               ELSE started,
               <<>>)

\* "Analyze Threat" of _render_text_analysis.
TextAnalysis ==
    /\ OpsLeft
    /\ \E text_input \in SESSION_TEXTS, use_claude \in BOOLEAN,
          completion \in SESSION_COMPLETIONS :
          IF Strip(text_input) = "" THEN Done("text_analysis", started, <<>>)
          ELSE LET api_key == started.anthropic_api_key
                   out == analyze_text(text_input, started.anonymize, "Text Input",
                                       IF use_claude THEN Some(api_key) ELSE None,
                                       use_claude /\ api_key # "",
                                       [ambient |-> SESSION_AMBIENT, completion |-> completion])
               IN Done("text_analysis",
                       [started EXCEPT !.last_result = Some(out.ret),
                                       !.analysis_history = <<out.ret>> \o @,
                                       !.global_stats = Counted(@, out.ret.flagged)],
                       out.calls)

\* "Analyze Document" of _render_document_upload.
DocumentUpload ==
    /\ OpsLeft
    /\ \E content \in SESSION_DOCUMENTS :
          LET chunks == Take(Chunks(content), 5)
          IN \E d \in [1..Len(chunks) -> CHUNK_ANALYSES(started.anonymize)] :
               LET results == [i \in 1..Len(chunks) |->
                                  AnalyzeChunk(chunks[i], started.anonymize,
                                               "Document: report.txt",
                                               [ambient |-> SESSION_AMBIENT,
                                                completion |-> [sent |-> FALSE, reply |-> None]],
                                               d[i])]
                   made == [i \in 1..Len(chunks) |->
                               [fn |-> "analyze_text", arg |-> chunks[i], ret |-> results[i]]]
                   stored == [started EXCEPT !.doc_results = results]
               IN IF results = <<>>
                  THEN Done("document_upload", stored, made)
                  ELSE Done("document_upload",
                            [stored EXCEPT
                                !.analysis_history = <<Best(results)>> \o @,
                                !.global_stats =
                                    [@ EXCEPT !.total_analyzed = @ + Len(results),
                                              !.threats_detected =
                                                  IF AnyFlagged(results) THEN @ + 1 ELSE @]],
                            made)

\* "Send" of the AI Copilot tab.
CopilotSend ==
    /\ OpsLeft
    /\ \E user_input \in COPILOT_INPUTS, completion \in SESSION_COMPLETIONS :
          LET asked == Append(started.copilot_chat, [role |-> "user", content |-> user_input])
              out == _copilot_response(user_input, asked, started.anthropic_api_key, completion)
          IN Done("copilot",
                  [started EXCEPT !.copilot_chat =
                      Append(asked, [role |-> "assistant", content |-> out.ret])],
                  out.calls)

\* "Start Monitoring" / "Stop Monitoring": the flag, then st.rerun(), the run
\* that follows simulating the feed if monitoring is now active.
ToggleMonitoring ==
    /\ OpsLeft
    /\ LET toggled == [started EXCEPT !.monitoring_active = ~@]
       IN \E items \in IF toggled.monitoring_active THEN GENERATED_ITEMS ELSE {<<>>} :
             Done("monitoring", Simulated(toggled, items), <<>>)

\* "Clear Feed": the empty feed, then st.rerun(), the run that follows
\* simulating the feed if monitoring is active.
ClearFeed ==
    /\ OpsLeft
    /\ LET cleared == [started EXCEPT !.live_feed = <<>>]
       IN \E items \in IF cleared.monitoring_active THEN GENERATED_ITEMS ELSE {<<>>} :
             Done("clear_feed", Simulated(cleared, items), <<>>)

\* A run of render_live_monitoring with monitoring active and no button
\* pressed: one to three new items.
Refresh ==
    /\ OpsLeft
    /\ started.monitoring_active
    /\ \E items \in GENERATED_ITEMS : Done("refresh", Simulated(started, items), <<>>)

\* "Analyze Now" of _render_quick_analyze, in a run of render_live_monitoring:
\* the feed simulation first when monitoring is active.
QuickAnalyze ==
    /\ OpsLeft
    /\ \E text \in SESSION_TEXTS,
          items \in IF started.monitoring_active THEN GENERATED_ITEMS ELSE {<<>>} :
          LET out == QuickAnalyzed(started, text, items, SESSION_AMBIENT)
          IN Done("quick_analyze", out.state, out.calls)

NextSession ==
    \/ Rerender
    \/ ToggleLocalMode
    \/ SetApiKey
    \/ TextAnalysis
    \/ DocumentUpload
    \/ CopilotSend
    \/ ToggleMonitoring
    \/ ClearFeed
    \/ Refresh
    \/ QuickAnalyze

SpecSession == InitSession /\ [][NextSession]_vars

\* ------------------------------------------------- the live feed at length
\* The monitoring page alone, run until the feed is full: every generated
\* item is the first sample without noise.

\* One to three copies of the one item.
FEED_ITEMS ==
    {[i \in 1..num_new |->
         generate_live_feed_item([sample |-> 1, noise |-> 0, ambient |-> SESSION_AMBIENT,
                                  source |-> LIVE_SOURCES[1]])] : num_new \in 1..3}

\* Room left under the caps on the analyzed items and on the quick analyses.
FeedRoom(quick) ==
    /\ session.global_stats.total_analyzed < MaxAnalyzed
    /\ quick => Len(session.analysis_history) < Len(SEEDS) + MaxQuick

FeedToggle ==
    /\ FeedRoom(FALSE)
    /\ LET toggled == [started EXCEPT !.monitoring_active = ~@]
       IN \E items \in IF toggled.monitoring_active THEN FEED_ITEMS ELSE {<<>>} :
             /\ request' = [op |-> "monitoring", n |-> 0]
             /\ result' = Some(Simulated(toggled, items))
             /\ calls' = <<>>

FeedRefresh ==
    /\ FeedRoom(FALSE)
    /\ started.monitoring_active
    /\ \E items \in FEED_ITEMS :
          /\ request' = [op |-> "refresh", n |-> 0]
          /\ result' = Some(Simulated(started, items))
          /\ calls' = <<>>

FeedQuickAnalyze ==
    /\ FeedRoom(TRUE)
    /\ \E items \in IF started.monitoring_active THEN FEED_ITEMS ELSE {<<>>} :
          LET out == QuickAnalyzed(started, "hello, see you at lunch", items, SESSION_AMBIENT)
          IN /\ request' = [op |-> "quick_analyze", n |-> 0]
             /\ result' = Some(out.state)
             /\ calls' = out.calls

NextFeed == FeedToggle \/ FeedRefresh \/ FeedQuickAnalyze

SpecFeed == InitSession /\ [][NextFeed]_vars

\* ------------------------------------------------------------- properties

\* A call has returned.
Returned == result # None

\* analyze_text has returned a result dict rather than the error.
Complete == Returned /\ result[1] # EMPTY_INPUT

\* What the call to fn, made by the last analyze_text, returned.
CallReturn(fn) == calls[CHOOSE i \in 1..Len(calls) : calls[i].fn = fn].ret

Range(s) == {s[i] : i \in 1..Len(s)}

\* Number of matched keywords of an entity class in a result.
KeywordCount(entities, class) == Len(Get(entities, class, <<>>))

\* Empty or whitespace-only.
Blank(text) == \A i \in 1..Len(text) : CharAt(text, i) \in WHITESPACE

\* C1: for every text and every setting of the anonymize and AI flags, a
\* result returned by analyze_text has 0 <= risk_score <= 97.
C1_ScoreBounds ==
    Complete => result[1].risk_score >= 0 /\ result[1].risk_score <= Pt(97)

\* A result held at 97 although pattern score and boost add up to more.
C1_Witness ==
    /\ Complete
    /\ result[1].risk_score = Pt(97)
    /\ CallReturn("_pattern_score").raw_score = Pt(95)
    /\ KeywordCount(result[1].entities, "threat_terms") > 0

\* The table of levels: [lo, hi) in points, hi = -1 for no upper end.
LEVEL_TABLE ==
    { [level |-> "SAFE", lo |-> -1, hi |-> 10],
      [level |-> "LOW", lo |-> 10, hi |-> 30],
      [level |-> "MEDIUM", lo |-> 30, hi |-> 55],
      [level |-> "HIGH", lo |-> 55, hi |-> 75],
      [level |-> "CRITICAL", lo |-> 75, hi |-> -1] }

LevelsOf(score) ==
    {row \in LEVEL_TABLE :
        /\ row.lo = -1 \/ score >= Pt(row.lo)
        /\ row.hi = -1 \/ score < Pt(row.hi)}

\* C2: the level is derived from the score by the exact table (below 10 SAFE,
\* 10 to below 30 LOW, 30 to below 55 MEDIUM, 55 to below 75 HIGH, 75 and
\* above CRITICAL); every score has exactly one level and the boundaries
\* 10, 30, 55 and 75 belong to the higher level.
C2_LevelTable ==
    Returned =>
        /\ Cardinality(LevelsOf(request.score)) = 1
        /\ \A row \in LevelsOf(request.score) : result[1] = row.level

\* The boundary 30.00 classified, as MEDIUM.
C2_Witness == Returned /\ request.score = Pt(30) /\ result[1] = "MEDIUM"

\* C3: in every result, flagged is true exactly when risk_score >= 30, which
\* is exactly when risk_level is MEDIUM, HIGH or CRITICAL.
C3_FlaggedIffThreshold ==
    Complete =>
        /\ result[1].flagged <=> result[1].risk_score >= Pt(30)
        /\ result[1].flagged <=> result[1].risk_level \in {"MEDIUM", "HIGH", "CRITICAL"}

\* A result exactly at the threshold, flagged.
C3_Witness ==
    Complete /\ result[1].risk_score = Pt(30) /\ result[1].flagged
        /\ result[1].risk_level = "MEDIUM"

\* C4: the final score is min(97, pattern_score + 8 * weapons + 10 *
\* threat terms + 4 * location-risk terms), counting matched keywords.
C4_FinalScore ==
    Complete =>
        result[1].risk_score =
            Min(Pt(97),
                CallReturn("_pattern_score").raw_score
                + Pt(8) * KeywordCount(result[1].entities, "weapons")
                + Pt(10) * KeywordCount(result[1].entities, "threat_terms")
                + Pt(4) * KeywordCount(result[1].entities, "location_risk"))

\* A result below the cap with a pattern score and two keywords of one class.
C4_Witness ==
    /\ Complete
    /\ CallReturn("_pattern_score").raw_score > 0
    /\ KeywordCount(result[1].entities, "threat_terms") = 2
    /\ result[1].risk_score < Pt(97)

\* The categories with at least one rule that matches the lowercased text.
MatchingCategories(text) ==
    {PATTERNS[k].k : k \in {j \in 1..Len(PATTERNS) :
        \E n \in 1..Len(PATTERNS[j].v) : re_search(PATTERNS[j].v[n], Lower(text)) # None}}

RECURSIVE WeightSum(_)
WeightSum(S) ==
    IF S = {} THEN 0
    ELSE LET c == CHOOSE c \in S : TRUE IN Pt(weights[c]) + WeightSum(S \ {c})

Reverse(s) == [i \in 1..Len(s) |-> s[Len(s) + 1 - i]]

\* s with its first n items moved to the end.
Rotate(s, n) == SubSeq(s, n + 1, Len(s)) \o SubSeq(s, 1, n)

\* The rule table with its categories in other orders.
REORDERED == {Rotate(PATTERNS, n) : n \in 1..(Len(PATTERNS) - 1)} \cup {Reverse(PATTERNS)}

\* C5: the pattern score is min(95, sum of the weights of the categories with
\* at least one matching rule): a hit category counts once however many of
\* its rules match, the others count nothing, and the order in which the
\* categories are evaluated does not matter.
C5_PatternScore ==
    Returned =>
        LET cats == MatchingCategories(request.text)
        IN /\ result[1].raw_score = Min(Pt(95), WeightSum(cats))
           /\ Range(Keys(result[1].hits)) = cats
           /\ Len(result[1].hits) = Cardinality(cats)
           /\ \A table \in REORDERED :
                 PatternScoreOver(table, request.text).raw_score = result[1].raw_score

\* A text matched by two rules of one category.
C5_Witness ==
    /\ Returned
    /\ \E i \in 1..Len(result[1].hits) : Len(result[1].hits[i].v) >= 2
    /\ result[1].raw_score > 0

\* Hit categories, matched keywords and score of an analysis.
Profile(categories, entities, score) ==
    [categories |-> Range(categories),
     weapons |-> Range(Get(entities, "weapons", <<>>)),
     threat_terms |-> Range(Get(entities, "threat_terms", <<>>)),
     location_risk |-> Range(Get(entities, "location_risk", <<>>)),
     score |-> score]

\* The profiles of the analyses of all non-blank inputs.
PROFILES ==
    {Profile(m.d.categories, m.d.entities, Round1(m.d.raw_score)) :
        m \in {x \in DETERMINISTIC : ~Blank(x.text)}}

Within(p, q) ==
    /\ p.categories \subseteq q.categories
    /\ p.weapons \subseteq q.weapons
    /\ p.threat_terms \subseteq q.threat_terms
    /\ p.location_risk \subseteq q.location_risk

ResultProfile == Profile(result[1].categories, result[1].entities, result[1].risk_score)

\* C6: if the hit categories and the matched keywords of each entity class of
\* one input are contained in those of another input, the first input's
\* risk_score is at most the second's.
C6_Monotone ==
    Complete =>
        LET p == ResultProfile
        IN \A q \in PROFILES :
               /\ Within(p, q) => p.score <= q.score
               /\ Within(q, p) => q.score <= p.score

\* A result with a category hit whose profile another input strictly extends.
C6_Witness ==
    /\ Complete
    /\ result[1].categories # <<>>
    /\ LET p == ResultProfile
       IN \E q \in PROFILES : Within(p, q) /\ ~Within(q, p) /\ p.score < q.score

SCENARIO_2 == "new malware exploit targeting ransomware victims"

\* C7, as stated: for SCENARIO_2 Cybersecurity hits and the result has
\* risk_score 28, risk_level LOW and flagged false.
C7_AsStated ==
    (Complete /\ request.text = SCENARIO_2) =>
        /\ "Cybersecurity" \in Range(result[1].categories)
        /\ result[1].risk_score = Pt(28)
        /\ result[1].risk_level = "LOW"
        /\ ~result[1].flagged

\* C7: for SCENARIO_2 Cybersecurity hits with weight 28, the threat terms
\* "target" and "victim" are found inside "targeting" and "victims" and add
\* 10 each: risk_score 48, risk_level MEDIUM, flagged true.
C7_Scenario2 ==
    (Complete /\ request.text = SCENARIO_2) =>
        /\ result[1].categories = <<"Cybersecurity">>
        /\ CallReturn("_pattern_score").raw_score = Pt(28)
        /\ result[1].entities = <<[k |-> "threat_terms", v |-> <<"target", "victim">>]>>
        /\ result[1].risk_score = Pt(48)
        /\ result[1].risk_level = "MEDIUM"
        /\ result[1].flagged

C7_Witness == Complete /\ request.text = SCENARIO_2 /\ result[1].risk_score > Pt(28)

RESULT_FIELDS ==
    {"id", "timestamp", "source", "content_preview", "content_hash", "risk_score",
     "risk_level", "flagged", "categories", "entities", "sentiment",
     "sentiment_strength", "language", "pattern_hits", "explanation",
     "mitigation_steps", "processing_time_ms", "anonymized", "model"}

\* C8: analyze_text has exactly two outcomes: for empty or whitespace-only
\* text the error result, with no anonymization, matching or augmentation
\* call; for every other text a result carrying all the result fields.
C8_TwoOutcomes ==
    Returned =>
        IF Blank(request.text)
        THEN result[1] = EMPTY_INPUT /\ calls = <<>>
        ELSE /\ DOMAIN result[1] = RESULT_FIELDS
             /\ {"_pattern_score", "_extract_entities", "_sentiment_score"}
                    \subseteq {calls[i].fn : i \in 1..Len(calls)}

\* The error returned for a text of spaces only.
C8_Witness ==
    /\ Returned
    /\ request.text # "" /\ Blank(request.text)
    /\ result[1] = EMPTY_INPUT
    /\ calls = <<>>

Agree(r1, r2, fields) == \A f \in fields : r1[f] = r2[f]

\* The reply the completion capability gave the last call, None without one.
ReplyOf(cs) ==
    IF \E i \in 1..Len(cs) : cs[i].fn = "messages.create"
    THEN cs[CHOOSE i \in 1..Len(cs) : cs[i].fn = "messages.create"].ret
    ELSE None

\* C9, as stated: two calls with the same text and flags produce identical
\* risk_score, risk_level, categories, entities, sentiment, explanation and
\* mitigation_steps.
C9_AsStated ==
    [][(Complete /\ Complete') =>
          Agree(result[1], result'[1],
                {"risk_score", "risk_level", "categories", "entities", "sentiment",
                 "explanation", "mitigation_steps"})]_vars

\* C9: two calls with the same text and flags produce identical risk_score,
\* risk_level, categories, entities, sentiment and mitigation_steps; their
\* explanations are identical when the completion capability gives both
\* calls the same reply, or is asked by neither.
C9_Determinism ==
    [][(Complete /\ Complete') =>
          /\ Agree(result[1], result'[1],
                   {"risk_score", "risk_level", "categories", "entities", "sentiment",
                    "mitigation_steps"})
          /\ ReplyOf(calls) = ReplyOf(calls') =>
                 result[1].explanation = result'[1].explanation]_vars

\* A result of a call whose explanation carries a reply of the capability.
C9_Witness ==
    /\ Complete
    /\ request.use_claude /\ Truthy(request.api_key)
    /\ Truthy(ReplyOf(calls))
    /\ result[1].explanation # Analysis(request.text, request.anonymize).explanation

\* The email addresses and phone numbers written in the inputs.
PII_IN_INPUTS == {"a@b.com", "gun@bomb.com", "555-123-4567", "555-1234"}

\* C10, as stated: when anonymize is true, the raw email address or phone
\* number of the input reaches none of the pattern matcher, the entity
\* extractor, the sentiment scorer and the prompt of the completion capability.
C10_AsStated ==
    (Returned /\ request.anonymize) =>
        \A i \in 1..Len(calls) :
            calls[i].fn \in {"_pattern_score", "_extract_entities", "_sentiment_score",
                             "messages.create"}
                => \A pii \in PII_IN_INPUTS :
                       Contains(request.text, pii) => ~Contains(calls[i].arg, pii)

RECURSIVE CountFrom(_, _, _)
\* len(re.findall(r, t[from - 1:])): the non-overlapping matches, left to right.
CountFrom(r, t, from) ==
    LET m == SearchFrom(r, t, from)
    IN IF m = None THEN 0 ELSE 1 + CountFrom(r, t, m[1].end)

\* t.count(token)
CountOf(t, token) ==
    Cardinality({i \in 1..Len(t) : LitAt(t, i, token)})

\* The phone numbers written in the texts handed to _anonymize.
PHONES_IN_INPUTS == {"555-1234", "555-123-4567", "1 (555) 123-4567"}

\* C11, as stated: redaction is the email pass, then the phone pass, then the
\* IPv4 pass, each on the output of the one before; every dotted quad of the
\* input is replaced by [IP REDACTED], every email by [EMAIL REDACTED] and
\* every phone-like digit sequence by [PHONE REDACTED].
C11_AsStated ==
    Len(calls) >= 1 =>
        LET in == calls[1].arg
            out == calls[1].ret
        IN /\ out = re_sub(IP_RE, "[IP REDACTED]",
                        re_sub(PHONE_RE, "[PHONE REDACTED]",
                            re_sub(EMAIL_RE, "[EMAIL REDACTED]", in)))
           /\ CountOf(out, "[IP REDACTED]") = CountFrom(IP_RE, in, 1)
           /\ re_search(IP_RE, out) = None
           /\ CountOf(out, "[EMAIL REDACTED]") = CountFrom(EMAIL_RE, in, 1)
           /\ \A phone \in PHONES_IN_INPUTS :
                  Contains(in, phone) =>
                      /\ ~Contains(out, phone)
                      /\ CountOf(out, "[PHONE REDACTED]") >= 1

\* C12: redaction is idempotent: _anonymize applied to what _anonymize
\* returned gives it back unchanged.
C12_Idempotent ==
    \A i \in 1..Len(calls) : i >= 2 => calls[i].ret = calls[i].arg

\* A text the first application redacted, handed to _anonymize again.
C12_Witness ==
    /\ Len(calls) >= 2
    /\ calls[1].ret # calls[1].arg
    /\ calls[2].arg = calls[1].ret
    /\ Contains(calls[2].arg, "[PHONE REDACTED]")
    /\ Contains(calls[2].arg, "[EMAIL REDACTED]")

\* The call asked for AI augmentation with a usable credential.
AugmentationRequested ==
    request.use_claude /\ request.api_key # None /\ request.api_key[1] # ""

AI_PREFIX == "**AI Analysis:** "

PATTERN_SEPARATOR == "\n\n**Pattern Analysis:** "

StartsWith(t, prefix) == Len(t) >= Len(prefix) /\ SubSeq(t, 1, Len(prefix)) = prefix

\* What analyze_text returns for the request with augmentation switched off.
WithoutAugmentation ==
    analyze_text(request.text, request.anonymize, request.source, None, FALSE,
                 CHOOSE env \in ENVS : TRUE).ret

\* C13: when augmentation is requested and the completion capability fails
\* (not installed, or the request raised), analyze_text still returns a
\* result; its explanation has no "AI Analysis" prefix and equals the one
\* produced with augmentation off, and its model label does not name the AI.
C13_FailureFallsBack ==
    (Returned /\ ~Blank(request.text) /\ AugmentationRequested /\ ReplyOf(calls) = None) =>
        /\ Complete
        /\ DOMAIN result[1] = RESULT_FIELDS
        /\ ~StartsWith(result[1].explanation, AI_PREFIX)
        /\ result[1].explanation = WithoutAugmentation.explanation
        /\ result[1].model = "SentinelAI Pattern Engine"

\* A failed request to the capability: messages.create was called and raised.
C13_Witness ==
    /\ Complete /\ AugmentationRequested
    /\ \E i \in 1..Len(calls) : calls[i].fn = "messages.create" /\ calls[i].ret = None
    /\ result[1].model = "SentinelAI Pattern Engine"

\* C14: for the same text and anonymize flag, risk_score, risk_level,
\* flagged, categories, entities, sentiment and mitigation_steps are the same
\* whether augmentation is off, fails, or succeeds with any text.
C14_NonAuthoritative ==
    Complete =>
        Agree(result[1], WithoutAugmentation,
              {"risk_score", "risk_level", "flagged", "categories", "entities",
               "sentiment", "mitigation_steps"})

\* A flagged result of a call the capability answered.
C14_Witness ==
    /\ Complete /\ AugmentationRequested
    /\ Truthy(ReplyOf(calls))
    /\ result[1].flagged
    /\ result[1].explanation # WithoutAugmentation.explanation

\* C15: the explanation carries the "AI Analysis" section exactly when the AI
\* flag is set, a non-empty credential is supplied and the completion
\* returned non-empty text; it is then the AI text followed by the "Pattern
\* Analysis" section holding the deterministic explanation unchanged; the
\* model label names the AI in exactly those cases.
C15_AISection ==
    Complete =>
        LET answered == AugmentationRequested /\ ReplyOf(calls) # None
                            /\ ReplyOf(calls)[1] # ""
        IN /\ StartsWith(result[1].explanation, AI_PREFIX) <=> answered
           /\ (result[1].model = "SentinelAI Pattern Engine + Claude") <=> answered
           /\ ~answered => result[1].model = "SentinelAI Pattern Engine"
           /\ answered =>
                  result[1].explanation =
                      AI_PREFIX \o ReplyOf(calls)[1] \o PATTERN_SEPARATOR
                          \o WithoutAugmentation.explanation
           /\ (\E i \in 1..Len(calls) : calls[i].fn = "messages.create")
                  => AugmentationRequested

\* A result whose explanation opens with the AI section.
C15_Witness ==
    /\ Complete
    /\ StartsWith(result[1].explanation, AI_PREFIX)
    /\ result[1].model = "SentinelAI Pattern Engine + Claude"

EndsWith(t, suffix) ==
    Len(t) >= Len(suffix) /\ SubSeq(t, Len(t) - Len(suffix) + 1, Len(t)) = suffix

\* C16: content_preview is the first 200 characters of the original input,
\* followed by "..." exactly when the input is longer than 200 characters,
\* whether anonymize is true or false: the preview is never redacted.
C16_ContentPreview ==
    Complete =>
        /\ Len(request.text) <= 200 => result[1].content_preview = request.text
        /\ Len(request.text) > 200 =>
               result[1].content_preview = SubSeq(request.text, 1, 200) \o "..."
        /\ EndsWith(result[1].content_preview, "...") <=> Len(request.text) > 200

\* The preview of a redacted analysis of a long text: cut, and with the
\* email address the scorers did not see.
C16_Witness ==
    /\ Complete /\ request.anonymize
    /\ Len(request.text) > 200
    /\ Len(result[1].content_preview) = 203
    /\ Contains(result[1].content_preview, "a@b.com")
    /\ ~Contains(CallReturn("_anonymize"), "a@b.com")

\* C17: for every pair of counts (pos, neg), both zero gives (Neutral, 0.0);
\* otherwise, with polarity = (pos - neg) / (pos + neg), polarity > 0.3 gives
\* Positive, polarity < -0.3 gives Negative and anything else Neutral; the
\* strength is |polarity| for Positive and Negative and 0.0 for Neutral, so
\* it is always within [0, 1].  Polarity and strength are compared as
\* fractions, cross-multiplied.
C17_Sentiment ==
    Returned =>
        LET pos == request.pos
            neg == request.neg
            total == pos + neg
            s == result[1]
            strength_is_abs_polarity == s.num * total = Abs(pos - neg) * s.den
        IN /\ s.den > 0 /\ 0 <= s.num /\ s.num <= s.den
           /\ total = 0 => s.label = "Neutral" /\ s.num = 0
           /\ total > 0 /\ 10 * (pos - neg) > 3 * total =>
                  s.label = "Positive" /\ strength_is_abs_polarity
           /\ total > 0 /\ 10 * (pos - neg) < -3 * total =>
                  s.label = "Negative" /\ strength_is_abs_polarity
           /\ total > 0 /\ 10 * (pos - neg) <= 3 * total /\ 10 * (pos - neg) >= -3 * total =>
                  s.label = "Neutral" /\ s.num = 0

\* A polarity of exactly -0.3 (7 positive, 13 negative terms) decided Neutral.
C17_Witness ==
    /\ Returned
    /\ request.pos + request.neg > 0
    /\ 10 * (request.pos - request.neg) = -3 * (request.pos + request.neg)
    /\ result[1].label = "Neutral"

URGENT_LINES ==
    <<"IMMEDIATE ACTION: Escalate to security team / incident response.",
      "Block and preserve the source for forensic analysis.">>

REVIEW_LINES ==
    <<"Flag for urgent review by human analyst.",
      "Document incident and cross-reference with known threat actors.">>

\* The action pair of each category, in the order of the plan.
CATEGORY_LINES ==
    << [k |-> "cybersecurity",
        v |-> <<"Run endpoint scan; isolate affected systems if necessary.",
                "Rotate credentials and invalidate active sessions.">>],
       [k |-> "social_engineering",
        v |-> <<"Do not click links or provide credentials. Report as phishing.",
                "Issue security awareness reminder to affected team/users.">>],
       [k |-> "violence",
        v |-> <<"Notify appropriate authorities if credible and imminent.",
                "Preserve evidence chain for potential legal action.">>],
       [k |-> "hate_speech",
        v |-> <<"Remove content from platform per community guidelines.",
                "Report to platform trust & safety team.">>],
       [k |-> "misinformation",
        v |-> <<"Fact-check against verified sources before sharing.",
                "Label content as potentially misleading if platform allows.">>],
       [k |-> "suspicious_activity",
        v |-> <<"Initiate deeper investigation of communication context.",
                "Map relationship network around this source.">>] >>

FALLBACK_LINES ==
    <<"No immediate action required - continue routine monitoring.",
      "Log for trend analysis and baseline comparison.">>

\* The one level the table gives a score.
LevelOf(score) == (CHOOSE row \in LevelsOf(score) : TRUE).level

EscalationLines(score) ==
    IF LevelOf(score) = "CRITICAL" THEN URGENT_LINES
    ELSE IF LevelOf(score) = "HIGH" THEN REVIEW_LINES
    ELSE <<>>

RECURSIVE ActionPairs(_, _)
\* The pairs of the hit categories among the table's, from the k-th on.
ActionPairs(hits, k) ==
    IF k > Len(CATEGORY_LINES) THEN <<>>
    ELSE (IF \E i \in 1..Len(hits) : hits[i].k = CATEGORY_LINES[k].k
          THEN CATEGORY_LINES[k].v ELSE <<>>) \o ActionPairs(hits, k + 1)

\* C18: the plan is, in this order, the escalation lines of the level (the two
\* urgent lines at CRITICAL, the two review lines at HIGH, never both, none
\* below) and then the two fixed lines of each hit category among
\* cybersecurity, social engineering, violence, hate speech, misinformation
\* and suspicious activity, in that order; it is determined by hits and score.
C18_PlanOrder ==
    Returned =>
        LET expected == EscalationLines(request.score) \o ActionPairs(request.hits, 1)
        IN /\ expected # <<>> => result[1] = expected
           /\ ~(Range(URGENT_LINES) \subseteq Range(result[1])
                    /\ Range(REVIEW_LINES) \subseteq Range(result[1]))
           /\ \A i \in 1..Len(calls) :
                  calls[i].ret = _mitigation_steps(calls[i].arg.hits, calls[i].arg.score)

\* A CRITICAL plan for two hit categories: urgent lines, then the
\* cybersecurity pair, then the social engineering pair.
C18_Witness ==
    /\ Returned
    /\ request.score >= Pt(75)
    /\ Keys(request.hits) = <<"cybersecurity", "social_engineering">>
    /\ result[1] = URGENT_LINES \o CATEGORY_LINES[1].v \o CATEGORY_LINES[2].v

RECURSIVE Concat(_)
\* The texts of a sequence, one after the other.
Concat(texts) == IF texts = <<>> THEN "" ELSE Head(texts) \o Concat(Tail(texts))

\* The chunks handed to analyze_text, in order.
Analyzed_chunks == [i \in 1..Len(calls) |-> calls[i].arg]

\* C20: document analysis splits the content into consecutive slices of at
\* most 2000 characters and analyzes at most the first 5 of them (exactly 5
\* for a document of 12,000 characters); the aggregate it keeps is the chunk
\* result with the numerically highest risk_score (a result without one, the
\* error result of a blank chunk, counting as 0 as in the code's key), ties
\* resolved to the earliest chunk in input order.
C20_DocumentAnalysis ==
    Returned =>
        /\ Len(calls) <= 5
        /\ \A i \in 1..Len(calls) : Len(calls[i].arg) \in 1..2000
        /\ \A i \in 1..(Len(calls) - 1) : Len(calls[i].arg) = 2000
        /\ Concat(Analyzed_chunks)
               = SubSeq(request.content, 1, Len(Concat(Analyzed_chunks)))
        /\ Len(request.content) <= 10000 => Concat(Analyzed_chunks) = request.content
        /\ Len(request.content) = 12000 => Len(calls) = 5
        /\ result[1].doc_results = [i \in 1..Len(calls) |-> calls[i].ret]
        /\ calls # <<>> =>
               /\ Len(result[1].analysis_history) = 1
               /\ \E i \in 1..Len(calls) :
                      /\ result[1].analysis_history[1] = calls[i].ret
                      /\ \A j \in 1..Len(calls) :
                             RiskScoreOf(calls[j].ret) <= RiskScoreOf(calls[i].ret)
                      /\ \A j \in 1..(i - 1) :
                             RiskScoreOf(calls[j].ret) < RiskScoreOf(calls[i].ret)

\* A document of 12,000 characters, five chunks analyzed, the highest score
\* shared by the second and the fourth, the second kept.
C20_Witness ==
    /\ Returned
    /\ Len(request.content) = 12000
    /\ Len(calls) = 5
    /\ calls[2].ret.risk_score > calls[1].ret.risk_score
    /\ calls[4].ret.risk_score = calls[2].ret.risk_score
    /\ calls[4].ret # calls[2].ret
    /\ \A j \in {3, 5} : calls[j].ret.risk_score < calls[2].ret.risk_score
    /\ result[1].analysis_history = <<calls[2].ret>>

\* C30 as stated: every item of generate_live_feed_item has a reported
\* risk_score within [0, 100], and its risk_level and flagged are the
\* threshold table and the >= 30 rule applied to that reported score.
C30_AsStated ==
    Returned =>
        /\ result[1].risk_score >= 0 /\ result[1].risk_score <= Pt(100)
        /\ result[1].risk_level \in {row.level : row \in LevelsOf(result[1].risk_score)}
        /\ result[1].flagged <=> result[1].risk_score >= Pt(30)

\* C25 as stated: analyzing an uploaded document completes without an
\* unhandled exception for every decoded content, an empty file included: the
\* aggregation always has at least one chunk result to select from.
C25_AsStated ==
    Returned => result[1].raised = "" /\ result[1].doc_results # <<>>

\* C26 as stated: every record placed in the analysis history is a complete
\* analysis result with id, risk_score, risk_level and explanation; the
\* empty-input error record of a blank chunk is never inserted.
C26_AsStated ==
    Returned =>
        \A i \in 1..Len(result[1].analysis_history) :
            /\ result[1].analysis_history[i] # EMPTY_INPUT
            /\ {"id", "risk_score", "risk_level", "explanation"}
                   \subseteq DOMAIN result[1].analysis_history[i]

\* C27 as stated: the "No immediate action required" fallback is never part
\* of the mitigation plan of a result that is flagged (risk_score >= 30) or
\* that has at least one hit category.
C27_AsStated ==
    Complete /\ (result[1].flagged \/ result[1].categories # <<>>) =>
        NO_ACTION \notin Range(result[1].mitigation_steps)

\* C23 as stated: after any sequence of monitoring refreshes, quick analyses
\* and start/stop toggles the live feed never holds more than 100 items.
C23_AsStated == Len(session.live_feed) <= 100

\* ---- the session

\* The external completion calls among the calls of the last run.
ExternalCalls == SelectSeq(calls, LAMBDA c : c.fn = "messages.create")

\* C21 as stated: while Local Processing Mode is on, neither a text analysis
\* nor a copilot message makes a call to the external completion capability.
C21_AsStated == session.local_mode => ExternalCalls = <<>>

\* seq without its i-th element.
Without(seq, i) == SubSeq(seq, 1, i - 1) \o SubSeq(seq, i + 1, Len(seq))

\* C22: every run of the script leaves the analysis history as it was or adds
\* exactly one record to it; the records already in it stay, in their order.
C22_HistoryAddOnly ==
    [][LET before == session.analysis_history
           after == session'.analysis_history
       IN \/ after = before
          \/ /\ Len(after) = Len(before) + 1
             /\ \E i \in 1..Len(after) : Without(after, i) = before]_vars

\* Two runs have each added a record in front of the seeded ones.
C22_Witness ==
    /\ Len(session.analysis_history) = Len(SEEDS) + 2
    /\ SubSeq(session.analysis_history, 3, Len(SEEDS) + 2)
           = init_session_state(DEFAULTS, SESSION_AMBIENT).analysis_history

\* C24 as stated: every record of the analysis history, the seeded ones
\* included, has the risk level of the table for its risk score and is
\* flagged exactly when its score is at least 30.
C24_AsStated ==
    \A i \in 1..Len(session.analysis_history) :
        LET r == session.analysis_history[i]
        IN /\ {"risk_score", "risk_level", "flagged"} \subseteq DOMAIN r
           /\ r.risk_level = _risk_level(r.risk_score)
           /\ r.flagged = Flagged(r.risk_score)

\* MODERATE < HIGH < CRITICAL
LevelRank(level) == CASE level = "CRITICAL" -> 2 [] level = "HIGH" -> 1 [] OTHER -> 0

\* The generated items of the live feed.
GeneratedIn(feed) == SelectSeq(feed, LAMBDA item : item.source # "Quick Analyze")

\* C28: the session threat level changes only in a run that simulates the
\* feed with monitoring active, and only upwards (MODERATE, HIGH, CRITICAL): it is at least the
\* level of every HIGH or CRITICAL generated item in the feed, so a HIGH item
\* after a CRITICAL one leaves it CRITICAL.
C28_ThreatLevel ==
    /\ [](\A i \in 1..Len(GeneratedIn(session.live_feed)) :
             LevelRank(session.threat_level)
                 >= LevelRank(GeneratedIn(session.live_feed)[i].risk_level))
    /\ [][/\ LevelRank(session'.threat_level) >= LevelRank(session.threat_level)
          /\ session'.threat_level # session.threat_level => session'.monitoring_active]_vars

\* A HIGH item was generated after a CRITICAL one and the level is CRITICAL.
C28_Witness ==
    /\ session.threat_level = "CRITICAL"
    /\ Len(session.live_feed) >= 2
    /\ session.live_feed[1].risk_level = "HIGH"
    /\ session.live_feed[2].risk_level = "CRITICAL"

\* C29: threats_detected never exceeds total_analyzed, and no run lowers
\* either counter.
C29_Counters ==
    /\ [](session.global_stats.threats_detected <= session.global_stats.total_analyzed)
    /\ [][/\ session'.global_stats.total_analyzed >= session.global_stats.total_analyzed
          /\ session'.global_stats.threats_detected
                 >= session.global_stats.threats_detected]_vars

\* Flagged and unflagged items have been counted since the session was seeded.
C29_Witness ==
    LET seeded == init_session_state(DEFAULTS, SESSION_AMBIENT).global_stats
    IN /\ session.global_stats.threats_detected > seeded.threats_detected
       /\ session.global_stats.total_analyzed - seeded.total_analyzed
              > session.global_stats.threats_detected - seeded.threats_detected

=============================================================================
